---- MODULE Spec2Model ----
(***************************************************************************)
(* Model of the retrieval and reranking engine of mtg-vector-db:           *)
(*   db/db_utils.py            OllamaEmbedder, OllamaReranker              *)
(*   db/search_strategies.py   Card/Rules/Glossary search strategies       *)
(*   db/search_with_reranker.py search_all_sources                         *)
(*                                                                         *)
(* Python values are modelled as follows.                                  *)
(*   - An Optional value is a record [some, val]; None is some = FALSE.    *)
(*   - A string the code parses is a sequence of one-character strings.    *)
(*   - List indices keep Python's 0-based values; TLA+ sequences are       *)
(*     1-based, so documents[i] is documents[i + 1] here.                  *)
(*   - A float score is the exact rational [num, den].                     *)
(*   - Every HTTP request, sleep and datastore call is appended to trace.  *)
(***************************************************************************)
EXTENDS Integers, Sequences, FiniteSets, TLC

\* ------------------------------------------------------------------ bounds
\* Largest number of documents / table rows drawn for a call.
MaxDocs == 3
\* Longest enumerated reranker response text, in characters.
MaxRespLen == 3
\* Largest top_k / final_k drawn for a call.
MaxTopK == 2
\* Largest number of failed HTTP requests injected into one run.
MaxFaults == 3
\* Largest number of rows per table when search_all_sources runs.
MaxRows == 1
\* Largest max_attempts of wait_for_ollama.
MaxAttempts == 3
\* Largest number of records in the file an ingest script loads.
MaxRecords == 2
\* Largest number of runs of an ingest script on one database.
MaxRuns == 2

\* --------------------------------------------------------- program constants
\* max_retries: int = 3, the default of generate_embedding and of rerank; only
\* test_connection passes another value (max_retries=1).
DefaultMaxRetries == 3

VARIABLES
    op,             \* the operation called at top level
    pc,             \* control location inside the running operation
    max_retries,    \* max_retries of the running retry loop
    attempt,        \* loop variable of the running retry loop (0-based)
    embedding,      \* Optional: what generate_embedding returned
    documents,      \* rerank's documents argument
    top_k,          \* Optional int: rerank's top_k argument
    response_text,  \* Optional: response text of the last 200 reranker reply
    ranking,        \* Optional: what _get_batch_ranking returned
    reranked,       \* the list rerank returned
    returned,       \* TRUE once the top-level operation has returned
    raised,         \* TRUE once an exception left the top-level operation
    trace,          \* external calls made so far, in order
    reranker,       \* whether the strategy object holds a reranker
    tables,         \* rows (with an embedding) in each corpus table
    initial_k,      \* initial_k of the running search
    final_k,        \* final_k of the running search
    candidates,     \* the rows the running search fetched
    results,        \* the list the running search returned
    ks,             \* cards_k, rules_k, glossary_k of search_all_sources
    source,         \* number of the source search_all_sources is searching
    found,          \* card_results, rule_results, glossary_results
    names,          \* mtg_cards as search_by_card_name's query sees it
    similarity_threshold,  \* similarity_threshold of search_by_card_name, in hundredths
    max_attempts,   \* max_attempts of wait_for_ollama
    delay,          \* delay of wait_for_ollama, in seconds
    ready,          \* the bool wait_for_ollama returned; in an ingest, whether
                    \* both waits returned True and the file loaded
    stored,         \* the committed rows of the tables an ingest writes
    pending,        \* the same tables as the open transaction sees them
    aborted,        \* TRUE while the open transaction is in the failed state
    records,        \* the records loaded from the JSON file
    batch_size,     \* batch_size of the running ingest
    batch_i,        \* loop variable i of the batch loop (0-based)
    ids,            \* rule_ids, term_ids or card_ids of the running batch
    next_id,        \* next value of the id sequence of the primary table
    run_no,         \* number of the running call, counted from 1
    inserted        \* rules_inserted, terms_inserted or cards_inserted

vars == <<op, pc, max_retries, attempt, embedding, documents, top_k,
          response_text, ranking, reranked, returned, raised, trace,
          reranker, tables, initial_k, final_k, candidates, results,
          ks, source, found, names, similarity_threshold,
          max_attempts, delay, ready, stored, pending, aborted, records,
          batch_size, batch_i, ids, next_id, run_no, inserted>>

\* The variables only search_by_card_name reads.
nameVars == <<names, similarity_threshold>>

\* The variables only wait_for_ollama reads or writes.
waitVars == <<max_attempts, delay, ready>>

\* The variables only the ingest scripts read or write.
ingestVars == <<stored, pending, aborted, records, batch_size, batch_i, ids,
                next_id, run_no, inserted>>

\* ------------------------------------------------------------ Python values
NoneSeq == [some |-> FALSE, val |-> <<>>]
SomeSeq(s) == [some |-> TRUE, val |-> s]
NoneInt == [some |-> FALSE, val |-> 0]
SomeInt(n) == [some |-> TRUE, val |-> n]

\* Python truthiness of an Optional list: None and [] are falsy.
Truthy(o) == o.some /\ Len(o.val) > 0

Min(a, b) == IF a <= b THEN a ELSE b

RECURSIVE Pow2(_)
Pow2(n) == IF n = 0 THEN 1 ELSE 2 * Pow2(n - 1)

\* s[:k] for a list s and an int k (negative k counts from the end).
SliceTo(s, k) ==
    IF k >= 0 THEN SubSeq(s, 1, Min(k, Len(s)))
    ELSE SubSeq(s, 1, IF Len(s) + k > 0 THEN Len(s) + k ELSE 0)

\* s[:top_k] where top_k may be None (None keeps the whole list).
SliceOpt(s, k) == IF k.some THEN SliceTo(s, k.val) ELSE s

\* ------------------------------------------------------- response parsing
DigitChars == {"0", "1", "2", "3", "4", "5", "6", "7", "8", "9"}

DigitVal(c) ==
    CASE c = "0" -> 0 [] c = "1" -> 1 [] c = "2" -> 2 [] c = "3" -> 3
      [] c = "4" -> 4 [] c = "5" -> 5 [] c = "6" -> 6 [] c = "7" -> 7
      [] c = "8" -> 8 [] c = "9" -> 9

\* re.findall(r'\d+', text): the maximal digit runs, left to right.
RECURSIVE FindAllDigits(_, _, _)
FindAllDigits(text, i, run) ==
    IF i > Len(text)
    THEN IF run = <<>> THEN <<>> ELSE <<run>>
    ELSE IF text[i] \in DigitChars
         THEN FindAllDigits(text, i + 1, Append(run, text[i]))
         ELSE IF run = <<>>
              THEN FindAllDigits(text, i + 1, <<>>)
              ELSE <<run>> \o FindAllDigits(text, i + 1, <<>>)

\* int(n) for a digit run n.
RECURSIVE ParseInt(_)
ParseInt(run) ==
    IF run = <<>> THEN 0
    ELSE 10 * ParseInt(SubSeq(run, 1, Len(run) - 1)) + DigitVal(run[Len(run)])

\* str.strip(): leading and trailing whitespace removed.
RECURSIVE Strip(_)
Strip(text) ==
    IF text = <<>> THEN text
    ELSE IF text[1] = " " THEN Strip(Tail(text))
    ELSE IF text[Len(text)] = " " THEN Strip(SubSeq(text, 1, Len(text) - 1))
    ELSE text

\* Mutant of ZeroIndexed: the 1-based numbers are kept as they are.
RECURSIVE ZeroIndexedNoShift(_)
ZeroIndexedNoShift(numbers) ==
    IF numbers = <<>> THEN <<>>
    ELSE <<ParseInt(Head(numbers))>> \o ZeroIndexedNoShift(Tail(numbers))

\* [f(x) for x in s]
RECURSIVE ZeroIndexed(_)
ZeroIndexed(numbers) ==
    IF numbers = <<>> THEN <<>>
    ELSE <<ParseInt(Head(numbers)) - 1>> \o ZeroIndexed(Tail(numbers))

\* [idx for idx in ranking if 0 <= idx < num_docs]
InRangeIndex(idx, num_docs) == 0 <= idx /\ idx < num_docs

RECURSIVE ValidIndices(_, _)
ValidIndices(r, num_docs) ==
    IF r = <<>> THEN <<>>
    ELSE IF InRangeIndex(Head(r), num_docs)
         THEN <<Head(r)>> \o ValidIndices(Tail(r), num_docs)
         ELSE ValidIndices(Tail(r), num_docs)

SeqRange(s) == {s[i] : i \in 1..Len(s)}

\* sorted(S) for a set of ints.
RECURSIVE Sorted(_)
Sorted(S) ==
    IF S = {} THEN <<>>
    ELSE LET m == CHOOSE x \in S : \A y \in S : x <= y
         IN <<m>> \o Sorted(S \ {m})

\* Mutant of ExtendMissing: nothing is appended.
ExtendMissingNothing(r, num_docs) == r

\* missing = set(range(num_docs)) - set(ranking); ranking.extend(sorted(missing))
ExtendMissing(r, num_docs) == r \o Sorted((0..(num_docs - 1)) \ SeqRange(r))

\* The body of `if numbers:` in _get_batch_ranking: the ranking returned for
\* a response with at least one digit run.
RankingFromNumbers(numbers, num_docs) ==
    SliceTo(ExtendMissing(ValidIndices(ZeroIndexed(numbers), num_docs), num_docs),
            num_docs)

\* ----------------------------------------------------------- rerank result
\* Mutant of Score: the rank position counted from 1.
ScoreOneBased(rank_position, n) == [num |-> n - rank_position - 1, den |-> n]

\* score = 1.0 - (rank_position / len(documents))
Score(rank_position, n) == [num |-> n - rank_position, den |-> n]

\* The fallback's 'score': 0.5
HalfScore == [num |-> 1, den |-> 2]

\* [{'index': i, 'text': doc, 'score': 0.5} for i, doc in enumerate(documents)]
FallbackResults(docs) ==
    [i \in 1..Len(docs) |-> [index |-> i - 1, text |-> docs[i], score |-> HalfScore]]

\* Mutant of RankedResults: the text is taken at the rank position.
RankedResultsTextAtPosition(docs, r) ==
    [p \in 1..Len(r) |->
        [index |-> r[p], text |-> docs[p], score |-> Score(p - 1, Len(docs))]]

\* for rank_position, doc_index in enumerate(ranking): results.append(...)
RankedResults(docs, r) ==
    [p \in 1..Len(r) |->
        [index |-> r[p], text |-> docs[r[p] + 1], score |-> Score(p - 1, Len(docs))]]

\* Mutant of RerankReturn: the fallback list is not cut to top_k.
RerankReturnUncutFallback(docs, k, rk) ==
    IF ~Truthy(rk)
    THEN FallbackResults(docs)
    ELSE SliceOpt(RankedResults(docs, rk.val), k)

\* What rerank returns once _get_batch_ranking has returned rk.
RerankReturn(docs, k, rk) ==
    IF ~Truthy(rk)
    THEN SliceOpt(FallbackResults(docs), k)
    ELSE SliceOpt(RankedResults(docs, rk.val), k)

\* ------------------------------------------------------------ external calls
Event(ev, who, att, out, secs) ==
    [ev |-> ev, who |-> who, attempt |-> att, out |-> out, secs |-> secs]

\* requests.post(...) of attempt att, and what came of it.
Post(who, att, out) == <<Event("post", who, att, out, 0)>>

\* if attempt < max_retries - 1: time.sleep(2 ** attempt)
BackoffSleep(who, att, retries) ==
    IF att < retries - 1 THEN <<Event("sleep", who, att, "-", Pow2(att))>> ELSE <<>>

\* What an attempt that raised requests.exceptions.RequestException appends.
ExceptionEvents(who, att, retries) ==
    Post(who, att, "exception") \o BackoffSleep(who, att, retries)

\* What an attempt answered with a status other than 200 appends: the else
\* branch only prints a warning.
StatusEvents(who, att, retries) == Post(who, att, "status")

\* A call on a DatabaseConnection of corpus c.
Db(ev, c, out) == <<Event(ev, c, 0, out, 0)>>

\* Requests that failed so far; the failures injected into one run are capped.
FaultCount ==
    Cardinality({j \in 1..Len(trace) : trace[j].ev = "post" /\ trace[j].out # "ok"})

MayFail == FaultCount < MaxFaults

\* A primary table without rows and its embedding tables without rows.
NoData == [rows |-> <<>>, embs |-> <<>>]

\* --------------------------------------------------------------- inputs
RespAlphabet == {"0", "1", "2", "3", " "}

RECURSIVE TextsOfLen(_)
TextsOfLen(n) ==
    IF n = 0 THEN {<<>>}
    ELSE {Append(t, c) : t \in TextsOfLen(n - 1), c \in RespAlphabet}

\* The responses of the spec's scenarios: "3, 1, 5" and "1 2 3 4 5".
ScenarioTexts ==
    { <<"3", ",", " ", "1", ",", " ", "5">>,
      <<"1", " ", "2", " ", "3", " ", "4", " ", "5">> }

\* result.get('response', ''): every text up to MaxRespLen characters (the
\* empty one also stands for a reply without the key) and the scenarios.
ResponseTexts == UNION {TextsOfLen(n) : n \in 0..MaxRespLen} \cup ScenarioTexts

\* The replies drawn when rerank runs inside a search: no digits, one number
\* (in or out of range), a repeated number.
SearchResponseTexts == TextsOfLen(0) \cup TextsOfLen(1) \cup {<<"2", " ", "2">>}

\* Document lists: n distinct texts.
Docs(n) == [i \in 1..n |-> <<"doc", i>>]

DocCounts == (0..MaxDocs) \cup {5}

TopKs == {NoneInt} \cup {SomeInt(k) : k \in 0..MaxTopK}

\* result.get('embedding') of a 200 reply: the vector, or None without the key.
EmbeddingReplies == {NoneSeq, SomeSeq(<<1, 2>>)}

Corpora == {"cards", "rules", "glossary"}

StrategyOps ==
    {"search_by_card_description", "search_ambiguous", "search_rules_text",
     "search_glossary_terms"}

\* The table a strategy reads.
CorpusOf(o) ==
    CASE o \in {"search_by_card_description", "search_ambiguous"} -> "cards"
      [] o = "search_rules_text" -> "rules"
      [] o = "search_glossary_terms" -> "glossary"

\* The order in which search_all_sources searches.
SourceOrder == <<"cards", "rules", "glossary">>

NoTables == [c \in Corpora |-> 0]

\* cards_k, rules_k, glossary_k of the two calls main() makes: the defaults
\* and search_all_sources(..., cards_k=5, rules_k=3, glossary_k=2).
CallKs ==
    { [c \in Corpora |-> IF c = "glossary" THEN 5 ELSE 10],
      [c \in Corpora |-> CASE c = "cards" -> 5 [] c = "rules" -> 3 [] c = "glossary" -> 2] }

\* ------------------------------------------------------------------- Init
InitLoop ==
    /\ max_retries = DefaultMaxRetries
    /\ attempt = 0
    /\ embedding = NoneSeq
    /\ response_text = NoneSeq
    /\ ranking = NoneSeq
    /\ reranked = <<>>
    /\ returned = FALSE
    /\ raised = FALSE
    /\ trace = <<>>

InitNoSearch ==
    /\ reranker = FALSE
    /\ tables = NoTables
    /\ initial_k = 0
    /\ final_k = 0
    /\ candidates = <<>>
    /\ results = <<>>
    /\ ks = NoTables
    /\ source = 0
    /\ found = [c \in Corpora |-> NoneSeq]

\* No card name is looked up.
InitNoName ==
    /\ names = <<>>
    /\ similarity_threshold = 0

\* wait_for_ollama is not called.
InitNoWait ==
    /\ max_attempts = 0
    /\ delay = 0
    /\ ready = FALSE

\* No ingest script runs.
InitNoIngest ==
    /\ stored = NoData
    /\ pending = NoData
    /\ aborted = FALSE
    /\ records = <<>>
    /\ batch_size = 0
    /\ batch_i = 0
    /\ ids = <<>>
    /\ next_id = 0
    /\ run_no = 0
    /\ inserted = 0

\* embedder.generate_embedding(text)
InitGenerateEmbedding ==
    /\ InitNoName
    /\ InitNoWait
    /\ InitNoIngest
    /\ op = "generate_embedding"
    /\ pc = "embed"
    /\ documents = <<>>
    /\ top_k = NoneInt
    /\ InitLoop
    /\ InitNoSearch

\* reranker.rerank(query, documents, top_k)
InitRerank ==
    /\ InitNoName
    /\ InitNoWait
    /\ InitNoIngest
    /\ op = "rerank"
    /\ pc = "rerank"
    /\ \E n \in DocCounts : documents = Docs(n)
    /\ top_k \in TopKs
    /\ InitLoop
    /\ InitNoSearch

Init == InitGenerateEmbedding \/ InitRerank

\* One of the strategies of search_strategies.py is called on a connected db;
\* the table of its corpus holds 0..MaxDocs rows with an embedding.
InitSearch ==
    /\ InitNoName
    /\ InitNoWait
    /\ InitNoIngest
    /\ op \in StrategyOps
    /\ pc = "embed"
    /\ documents = <<>>
    /\ top_k = NoneInt
    /\ InitLoop
    /\ reranker \in (IF op = "search_ambiguous" THEN {FALSE} ELSE BOOLEAN)
    /\ \E n \in 0..MaxDocs : tables = [NoTables EXCEPT ![CorpusOf(op)] = n]
    /\ initial_k \in 1..MaxDocs
    /\ final_k \in (IF op = "search_ambiguous" THEN {0} ELSE 0..MaxTopK)
    /\ candidates = <<>>
    /\ results = <<>>
    /\ ks = NoTables
    /\ source = 0
    /\ found = [c \in Corpora |-> NoneSeq]

\* search_all_sources(query, cards_k, rules_k, glossary_k)
InitAll ==
    /\ InitNoName
    /\ InitNoWait
    /\ InitNoIngest
    /\ op = "search_all_sources"
    /\ pc = "embed"
    /\ documents = <<>>
    /\ top_k = NoneInt
    /\ InitLoop
    /\ reranker = TRUE
    /\ tables \in [Corpora -> 0..MaxRows]
    /\ initial_k = 0
    /\ final_k = 0
    /\ candidates = <<>>
    /\ results = <<>>
    /\ ks \in CallKs
    /\ source = 0
    /\ found = [c \in Corpora |-> NoneSeq]

\* ------------------------------------------------------------- datastore
NoNum == [some |-> FALSE, num |-> 0, den |-> 1]
Num(n, d) == [some |-> TRUE, num |-> n, den |-> d]

\* Row i of corpus c as the nearest-neighbour query returns it: its distance
\* to the query vector grows with i; (e.embedding <=> NULL::vector) is NULL.
Row(c, i, emb) ==
    [corpus |-> c, id |-> i, distance |-> IF emb.some THEN Num(i, 10) ELSE NoNum]

\* SELECT ... JOIN ... ORDER BY e.embedding <=> %s::vector LIMIT %s: the k
\* nearest rows in ascending distance. With a NULL parameter no row is
\* filtered out, every distance is NULL and the order is the table's.
VectorQuery(c, n, emb, k) == [i \in 1..Min(n, k) |-> Row(c, i, emb)]

\* ------------------------------------------------- search_all_sources locals
\* initial_k of the call search_all_sources makes for corpus c.
InitialKOf(c) == IF c = "glossary" THEN 20 ELSE 30

\* Rendering of a candidate row as a reranker document.
Document(row) == <<row.corpus, row.id>>

Documents(rows) == [i \in 1..Len(rows) |-> Document(rows[i])]

\* search_<corpus>_with_reranking: results.append({... 'rerank_score': ...})
SourceResults(rows, items) ==
    [p \in 1..Len(items) |->
        [source |-> rows[items[p].index + 1].corpus,
         id |-> rows[items[p].index + 1].id,
         vector_similarity |-> rows[items[p].index + 1].distance,
         rerank_score |-> items[p].score]]

\* ---------------------------------------------------- search_strategies.py
Result(row, match_type, distance, score) ==
    [corpus |-> row.corpus, id |-> row.id, match_type |-> match_type,
     similarity |-> NoNum, distance |-> distance,
     score |-> IF score = <<>> THEN NoNum ELSE Num(score[1].num, score[1].den)]

\* [{..., 'distance': float(card[3]), 'match_type': t} for card in candidates]
DistanceResults(rows, t) ==
    [i \in 1..Len(rows) |-> Result(rows[i], t, rows[i].distance, <<>>)]

\* float(card[3]) raises TypeError for a NULL distance.
FloatRaises(rows) == \E i \in 1..Len(rows) : ~rows[i].distance.some

\* Mutant of RerankedResults: the candidate's distance is kept beside the score.
RerankedResultsWithDistance(rows, items) ==
    [p \in 1..Len(items) |->
        Result(rows[items[p].index + 1], "vector_reranked",
               rows[items[p].index + 1].distance, <<items[p].score>>)]

\* results.append({..., 'score': item['score'], 'match_type': 'vector_reranked'})
RerankedResults(rows, items) ==
    [p \in 1..Len(items) |->
        Result(rows[items[p].index + 1], "vector_reranked", NoNum, <<items[p].score>>)]

\* The match_type of a strategy's results when it does not rerank.
VectorMatchType(o) == IF o = "search_ambiguous" THEN "vector_ambiguous" ELSE "vector_only"

\* --------------------------------------------------------- control flow
\* An exception leaves the running operation.
Raise ==
    /\ raised' = TRUE
    /\ pc' = "done"
    /\ UNCHANGED returned

\* The running operation returns.
Return ==
    /\ returned' = TRUE
    /\ pc' = "done"
    /\ UNCHANGED raised

\* ------------------------------------------------- OllamaEmbedder (db_utils)
\* Mutant of RetryRange: one attempt too many.
RetryRangeInclusive(retries) == 0..retries

\* range(max_retries): the values the loop variable takes.
RetryRange(retries) == 0..(retries - 1)

\* Mutant of EmbedReturn: the caller goes on to its query whatever e is.
EmbedReturnUnchecked(e) ==
    /\ embedding' = e
    /\ pc' = "query"
    /\ source' = (IF op = "search_all_sources" THEN 1 ELSE source)
    /\ UNCHANGED <<returned, documents, top_k, response_text, ranking, reranked,
                   raised, reranker, tables, initial_k, final_k, candidates,
                   results, ks, found>>

\* generate_embedding returns e to its caller, which goes on: a strategy
\* queries the datastore with it whatever it is; search_all_sources returns
\* at once `if not query_embedding`.
EmbedReturn(e) ==
    /\ embedding' = e
    /\ IF op \in StrategyOps \/ (op = "search_all_sources" /\ Truthy(e))
       THEN /\ pc' = "query"
            /\ source' = (IF op = "search_all_sources" THEN 1 ELSE source)
            /\ UNCHANGED returned
       ELSE /\ pc' = "done"
            /\ returned' = TRUE
            /\ UNCHANGED source
    /\ UNCHANGED <<documents, top_k, response_text, ranking, reranked, raised,
                   reranker, tables, initial_k, final_k, candidates, results,
                   ks, found>>

\* The for loop goes on, or is exhausted and the function returns None.
EmbedNextAttempt ==
    /\ attempt' = attempt + 1
    /\ IF attempt + 1 \in RetryRange(max_retries)
       THEN UNCHANGED <<pc, embedding, documents, top_k, response_text, ranking,
                        reranked, returned, raised, reranker, tables, initial_k,
                        final_k, candidates, results, ks, source, found>>
       ELSE EmbedReturn(NoneSeq)

EmbedRequestException ==
    /\ UNCHANGED <<nameVars, waitVars, ingestVars>>
    /\ pc = "embed"
    /\ attempt \in RetryRange(max_retries)
    /\ MayFail
    /\ trace' = trace \o ExceptionEvents("embed", attempt, max_retries)
    /\ EmbedNextAttempt
    /\ UNCHANGED <<op, max_retries>>

EmbedStatusNot200 ==
    /\ UNCHANGED <<nameVars, waitVars, ingestVars>>
    /\ pc = "embed"
    /\ attempt \in RetryRange(max_retries)
    /\ MayFail
    /\ trace' = trace \o StatusEvents("embed", attempt, max_retries)
    /\ EmbedNextAttempt
    /\ UNCHANGED <<op, max_retries>>

\* Mutant of EmbedOk: a 200 reply without 'embedding' counts as a failed
\* attempt.
EmbedOkRetriesWhenAbsent ==
    /\ UNCHANGED <<nameVars, waitVars, ingestVars>>
    /\ pc = "embed"
    /\ attempt \in RetryRange(max_retries)
    /\ \E e \in EmbeddingReplies :
          /\ trace' = trace \o Post("embed", attempt, "ok")
          /\ IF e.some THEN EmbedReturn(e) /\ UNCHANGED attempt ELSE EmbedNextAttempt
    /\ UNCHANGED <<op, max_retries>>

EmbedOk ==
    /\ UNCHANGED <<nameVars, waitVars, ingestVars>>
    /\ pc = "embed"
    /\ attempt \in RetryRange(max_retries)
    /\ \E e \in EmbeddingReplies :
          /\ trace' = trace \o Post("embed", attempt, "ok")
          /\ EmbedReturn(e)
    /\ UNCHANGED <<op, max_retries, attempt>>

\* ------------------------------------------------- OllamaReranker (db_utils)
\* Mutant of RerankEmpty: the empty list is returned after a request.
RerankEmptyAfterRequest ==
    /\ UNCHANGED <<nameVars, waitVars, ingestVars>>
    /\ pc = "rerank"
    /\ documents = <<>>
    /\ trace' = trace \o Post("rerank", 0, "ok")
    /\ reranked' = <<>>
    /\ pc' = "done"
    /\ returned' = TRUE
    /\ UNCHANGED <<op, max_retries, attempt, embedding, documents, top_k,
                   response_text, ranking, raised, reranker, tables,
                   initial_k, final_k, candidates, results, ks, source, found>>

\* rerank: `if not documents: return []`, before any request.
RerankEmpty ==
    /\ UNCHANGED <<nameVars, waitVars, ingestVars>>
    /\ pc = "rerank"
    /\ documents = <<>>
    /\ reranked' = <<>>
    /\ pc' = "done"
    /\ returned' = TRUE
    /\ UNCHANGED <<op, max_retries, attempt, embedding, documents, top_k,
                   response_text, ranking, raised, trace, reranker, tables,
                   initial_k, final_k, candidates, results, ks, source, found>>

\* Mutant of AfterSource: the next source is searched from the embedding
\* step on.
AfterSourceReembed(s) ==
    IF s < Len(SourceOrder)
    THEN /\ source' = s + 1
         /\ pc' = "embed"
         /\ UNCHANGED returned
    ELSE /\ pc' = "done"
         /\ returned' = TRUE
         /\ UNCHANGED source

\* search_all_sources goes on after the search of source number s returned:
\* the next source is searched, or the results are printed and it returns.
AfterSource(s) ==
    IF s < Len(SourceOrder)
    THEN /\ source' = s + 1
         /\ pc' = "query"
         /\ UNCHANGED returned
    ELSE /\ pc' = "done"
         /\ returned' = TRUE
         /\ UNCHANGED source

\* search_<corpus>_with_reranking returns items for source number s: its own
\* locals and those of rerank are gone, search_all_sources keeps the list.
SourceReturn(s, items) ==
    /\ found' = [found EXCEPT ![SourceOrder[s]] = SomeSeq(items)]
    /\ candidates' = <<>>
    /\ documents' = <<>>
    /\ top_k' = NoneInt
    /\ response_text' = NoneSeq
    /\ ranking' = NoneSeq
    /\ reranked' = <<>>
    /\ results' = <<>>
    /\ initial_k' = 0
    /\ final_k' = 0
    /\ AfterSource(s)

\* _get_batch_ranking returns rk (text being the last 200 reply it read),
\* rerank builds its result from it and the caller of rerank maps the items
\* back onto its candidates.
RerankFinish(rk, text) ==
    /\ UNCHANGED <<embedding, raised, reranker, tables, ks>>
    /\ CASE op = "rerank" ->
              /\ response_text' = text
              /\ ranking' = rk
              /\ reranked' = RerankReturn(documents, top_k, rk)
              /\ Return
              /\ UNCHANGED <<documents, top_k, initial_k, final_k, candidates,
                             results, source, found>>
         [] op \in StrategyOps ->
              /\ response_text' = text
              /\ ranking' = rk
              /\ reranked' = RerankReturn(documents, top_k, rk)
              /\ results' = RerankedResults(candidates, reranked')
              /\ Return
              /\ UNCHANGED <<documents, top_k, initial_k, final_k, candidates,
                             source, found>>
         [] op = "search_all_sources" ->
              SourceReturn(source,
                  SourceResults(candidates, RerankReturn(documents, top_k, rk)))

\* The attempt yielded no ranking: the for loop goes on, or is exhausted and
\* _get_batch_ranking returns None.
RerankNextAttempt(text) ==
    /\ attempt' = attempt + 1
    /\ IF attempt + 1 \in RetryRange(max_retries)
       THEN /\ response_text' = text
            /\ UNCHANGED <<pc, embedding, documents, top_k, ranking, reranked,
                           returned, raised, reranker, tables, initial_k, final_k,
                           candidates, results, ks, source, found>>
       ELSE RerankFinish(NoneSeq, text)

\* response.json().get('response', '') of a 200 reply.
ReplyTexts == IF op = "rerank" THEN ResponseTexts ELSE SearchResponseTexts

RerankRequestException ==
    /\ UNCHANGED <<nameVars, waitVars, ingestVars>>
    /\ pc = "rerank"
    /\ documents # <<>>
    /\ attempt \in RetryRange(max_retries)
    /\ MayFail
    /\ trace' = trace \o ExceptionEvents("rerank", attempt, max_retries)
    /\ RerankNextAttempt(response_text)
    /\ UNCHANGED <<op, max_retries>>

RerankStatusNot200 ==
    /\ UNCHANGED <<nameVars, waitVars, ingestVars>>
    /\ pc = "rerank"
    /\ documents # <<>>
    /\ attempt \in RetryRange(max_retries)
    /\ MayFail
    /\ trace' = trace \o StatusEvents("rerank", attempt, max_retries)
    /\ RerankNextAttempt(response_text)
    /\ UNCHANGED <<op, max_retries>>

\* Mutant of RerankOkNoDigits: the `if numbers:` test is missing, so an empty
\* list of numbers is filled up to the identity ranking and returned.
RerankOkNoDigitsFilled ==
    /\ UNCHANGED <<nameVars, waitVars, ingestVars>>
    /\ pc = "rerank"
    /\ documents # <<>>
    /\ attempt \in RetryRange(max_retries)
    /\ MayFail
    /\ \E text \in ReplyTexts :
          /\ FindAllDigits(Strip(text), 1, <<>>) = <<>>
          /\ RerankFinish(SomeSeq(RankingFromNumbers(<<>>, Len(documents))),
                          SomeSeq(text))
    /\ trace' = trace \o Post("rerank", attempt, "nodigits")
    /\ UNCHANGED <<op, max_retries, attempt>>

\* A 200 reply whose text holds no digit run: `if numbers:` is false, nothing
\* is returned and the loop goes on.
RerankOkNoDigits ==
    /\ UNCHANGED <<nameVars, waitVars, ingestVars>>
    /\ pc = "rerank"
    /\ documents # <<>>
    /\ attempt \in RetryRange(max_retries)
    /\ MayFail
    /\ \E text \in ReplyTexts :
          /\ FindAllDigits(Strip(text), 1, <<>>) = <<>>
          /\ RerankNextAttempt(SomeSeq(text))
    /\ trace' = trace \o Post("rerank", attempt, "nodigits")
    /\ UNCHANGED <<op, max_retries>>

\* A 200 reply with at least one digit run: the ranking is returned.
RerankOkDigits ==
    /\ UNCHANGED <<nameVars, waitVars, ingestVars>>
    /\ pc = "rerank"
    /\ documents # <<>>
    /\ attempt \in RetryRange(max_retries)
    /\ \E text \in ReplyTexts :
          LET numbers == FindAllDigits(Strip(text), 1, <<>>)
          IN /\ numbers # <<>>
             /\ RerankFinish(SomeSeq(RankingFromNumbers(numbers, Len(documents))),
                             SomeSeq(text))
    /\ trace' = trace \o Post("rerank", attempt, "ok")
    /\ UNCHANGED <<op, max_retries, attempt>>

\* ------------------------------------------------------------------- Spec
\* The two clients of db_utils.py called on their own.
Next ==
    \/ EmbedRequestException
    \/ EmbedStatusNot200
    \/ EmbedOk
    \/ RerankEmpty
    \/ RerankRequestException
    \/ RerankStatusNot200
    \/ RerankOkNoDigits
    \/ RerankOkDigits

Spec == Init /\ [][Next]_vars

\* ---------------------------------------- strategies (search_strategies.py)
\* The LIMIT of the strategy's query: initial_k, or search_ambiguous's top_k.
QueryRows == VectorQuery(CorpusOf(op), tables[CorpusOf(op)], embedding, initial_k)

\* self.db.execute(...) raises (a structural error): the strategy does not
\* catch it.
StrategyQueryError ==
    /\ UNCHANGED <<nameVars, waitVars, ingestVars>>
    /\ op \in StrategyOps
    /\ pc = "query"
    /\ trace' = trace \o Db("execute", CorpusOf(op), "error")
    /\ Raise
    /\ UNCHANGED <<op, max_retries, attempt, embedding, documents, top_k,
                   response_text, ranking, reranked, reranker, tables, initial_k,
                   final_k, candidates, results, ks, source, found>>

\* `if not candidates: return []`
StrategyNoCandidates ==
    /\ UNCHANGED <<nameVars, waitVars, ingestVars>>
    /\ op \in StrategyOps \ {"search_ambiguous"}
    /\ pc = "query"
    /\ QueryRows = <<>>
    /\ trace' = trace \o Db("execute", CorpusOf(op), "ok")
    /\ candidates' = <<>>
    /\ results' = <<>>
    /\ Return
    /\ UNCHANGED <<op, max_retries, attempt, embedding, documents, top_k,
                   response_text, ranking, reranked, reranker, tables, initial_k,
                   final_k, ks, source, found>>

\* The strategy does not rerank: search_ambiguous, or `if not self.reranker`.
NoRerank == op = "search_ambiguous" \/ (QueryRows # <<>> /\ ~reranker)

\* The rows are returned with their distance, all of them.
StrategyVectorOnly ==
    /\ UNCHANGED <<nameVars, waitVars, ingestVars>>
    /\ op \in StrategyOps
    /\ pc = "query"
    /\ NoRerank
    /\ ~FloatRaises(QueryRows)
    /\ trace' = trace \o Db("execute", CorpusOf(op), "ok")
    /\ candidates' = QueryRows
    /\ results' = DistanceResults(QueryRows, VectorMatchType(op))
    /\ Return
    /\ UNCHANGED <<op, max_retries, attempt, embedding, documents, top_k,
                   response_text, ranking, reranked, reranker, tables, initial_k,
                   final_k, ks, source, found>>

\* float(row[n]) of a NULL distance raises TypeError while the result list
\* is built.
StrategyFloatTypeError ==
    /\ UNCHANGED <<nameVars, waitVars, ingestVars>>
    /\ op \in StrategyOps
    /\ pc = "query"
    /\ NoRerank
    /\ FloatRaises(QueryRows)
    /\ trace' = trace \o Db("execute", CorpusOf(op), "ok")
    /\ candidates' = QueryRows
    /\ Raise
    /\ UNCHANGED <<op, max_retries, attempt, embedding, documents, top_k,
                   response_text, ranking, reranked, reranker, tables, initial_k,
                   final_k, results, ks, source, found>>

\* Mutant of StrategyStartRerank: the datastore is queried again instead of
\* the reranker being called.
StrategyStartRerankRequeries ==
    /\ UNCHANGED <<nameVars, waitVars, ingestVars>>
    /\ op \in StrategyOps \ {"search_ambiguous"}
    /\ pc = "query"
    /\ QueryRows # <<>>
    /\ reranker
    /\ trace' = trace \o Db("execute", CorpusOf(op), "ok")
    /\ candidates' = QueryRows
    /\ documents' = Documents(QueryRows)
    /\ top_k' = SomeInt(final_k)
    /\ attempt' = 0
    /\ pc' = "query"
    /\ UNCHANGED <<op, max_retries, embedding, response_text, ranking, reranked,
                   returned, raised, reranker, tables, initial_k, final_k,
                   results, ks, source, found>>

\* The documents are rendered and self.reranker.rerank(query, documents,
\* top_k=final_k) is called.
StrategyStartRerank ==
    /\ UNCHANGED <<nameVars, waitVars, ingestVars>>
    /\ op \in StrategyOps \ {"search_ambiguous"}
    /\ pc = "query"
    /\ QueryRows # <<>>
    /\ reranker
    /\ trace' = trace \o Db("execute", CorpusOf(op), "ok")
    /\ candidates' = QueryRows
    /\ documents' = Documents(QueryRows)
    /\ top_k' = SomeInt(final_k)
    /\ attempt' = 0
    /\ pc' = "rerank"
    /\ UNCHANGED <<op, max_retries, embedding, response_text, ranking, reranked,
                   returned, raised, reranker, tables, initial_k, final_k,
                   results, ks, source, found>>

NextSearch ==
    \/ EmbedRequestException
    \/ EmbedStatusNot200
    \/ EmbedOk
    \/ StrategyQueryError
    \/ StrategyNoCandidates
    \/ StrategyVectorOnly
    \/ StrategyFloatTypeError
    \/ StrategyStartRerank
    \/ RerankRequestException
    \/ RerankStatusNot200
    \/ RerankOkNoDigits
    \/ RerankOkDigits

SpecSearch == InitSearch /\ [][NextSearch]_vars

\* ------------------------------- search_all_sources (search_with_reranker.py)
\* The source being searched and the rows its query returns.
Source == SourceOrder[source]

SourceRows == VectorQuery(Source, tables[Source], embedding, InitialKOf(Source))

\* Mutant of WithBlockOk: the connection is not closed.
WithBlockLeftOpen(c) ==
    Db("connect", c, "ok") \o Db("execute", c, "ok") \o Db("commit", c, "ok")

\* `with DatabaseConnection() as db:` whose body ran to its end: connect,
\* execute, then __exit__ commits and closes.
WithBlockOk(c) ==
    Db("connect", c, "ok") \o Db("execute", c, "ok") \o Db("commit", c, "ok")
        \o Db("close", c, "ok")

\* The same when conn.commit() raises in __exit__: self.close() is not
\* reached and the exception goes on.
WithBlockCommitError(c) ==
    Db("connect", c, "ok") \o Db("execute", c, "ok") \o Db("commit", c, "error")

\* The same when execute raises: __exit__ rolls back, closes and the
\* exception goes on.
WithBlockError(c) ==
    Db("connect", c, "ok") \o Db("execute", c, "error") \o Db("rollback", c, "ok")
        \o Db("close", c, "ok")

\* DatabaseConnection.connect raises: nothing in search_<corpus>_with_reranking
\* or in search_all_sources catches it.
SourceConnectError ==
    /\ UNCHANGED <<nameVars, waitVars, ingestVars>>
    /\ op = "search_all_sources"
    /\ pc = "query"
    /\ trace' = trace \o Db("connect", Source, "error")
    /\ Raise
    /\ UNCHANGED <<op, max_retries, attempt, embedding, documents, top_k,
                   response_text, ranking, reranked, reranker, tables, initial_k,
                   final_k, candidates, results, ks, source, found>>

\* db.execute raises inside the with block.
SourceExecuteError ==
    /\ UNCHANGED <<nameVars, waitVars, ingestVars>>
    /\ op = "search_all_sources"
    /\ pc = "query"
    /\ trace' = trace \o WithBlockError(Source)
    /\ Raise
    /\ UNCHANGED <<op, max_retries, attempt, embedding, documents, top_k,
                   response_text, ranking, reranked, reranker, tables, initial_k,
                   final_k, candidates, results, ks, source, found>>

\* conn.commit() raises when the with block is left.
SourceCommitError ==
    /\ UNCHANGED <<nameVars, waitVars, ingestVars>>
    /\ op = "search_all_sources"
    /\ pc = "query"
    /\ trace' = trace \o WithBlockCommitError(Source)
    /\ Raise
    /\ UNCHANGED <<op, max_retries, attempt, embedding, documents, top_k,
                   response_text, ranking, reranked, reranker, tables, initial_k,
                   final_k, candidates, results, ks, source, found>>

\* `if not candidates: return []`, and search_all_sources goes on.
SourceNoCandidates ==
    /\ UNCHANGED <<nameVars, waitVars, ingestVars>>
    /\ op = "search_all_sources"
    /\ pc = "query"
    /\ SourceRows = <<>>
    /\ trace' = trace \o WithBlockOk(Source)
    /\ SourceReturn(source, <<>>)
    /\ UNCHANGED <<op, max_retries, attempt, embedding, raised, reranker,
                   tables, ks>>

\* The documents are built and reranker.rerank(query, documents,
\* top_k=final_k) is called.
SourceStartRerank ==
    /\ UNCHANGED <<nameVars, waitVars, ingestVars>>
    /\ op = "search_all_sources"
    /\ pc = "query"
    /\ SourceRows # <<>>
    /\ trace' = trace \o WithBlockOk(Source)
    /\ initial_k' = InitialKOf(Source)
    /\ final_k' = ks[Source]
    /\ candidates' = SourceRows
    /\ documents' = Documents(SourceRows)
    /\ top_k' = SomeInt(ks[Source])
    /\ attempt' = 0
    /\ pc' = "rerank"
    /\ UNCHANGED <<op, max_retries, embedding, response_text, ranking, reranked,
                   returned, raised, reranker, tables, results, ks, source, found>>

NextAll ==
    \/ EmbedRequestException
    \/ EmbedStatusNot200
    \/ EmbedOk
    \/ SourceConnectError
    \/ SourceExecuteError
    \/ SourceCommitError
    \/ SourceNoCandidates
    \/ SourceStartRerank
    \/ RerankRequestException
    \/ RerankStatusNot200
    \/ RerankOkNoDigits
    \/ RerankOkDigits

SpecAll == InitAll /\ [][NextAll]_vars

\* What the top-level operation hands to its caller when it returns:
\* generate_embedding the embedding or None, rerank and the strategies their
\* list; search_all_sources prints what it found and has no return value,
\* neither at `if not query_embedding: ... return` nor at its end.
ReturnValue ==
    CASE op = "generate_embedding" -> embedding
      [] op = "rerank" -> SomeSeq(reranked)
      [] op = "search_all_sources" -> NoneSeq
      [] op \in {"wait_for_ollama", "ingest_cards", "ingest_rules", "ingest_glossary"} ->
            [some |-> TRUE, val |-> ready]
      [] OTHER -> SomeSeq(results)

\* ------------------------- search_by_card_name (search_strategies.py 25-116)
\* similarity_threshold: float = 0.3, in hundredths.
DefaultSimilarityThreshold == 30

\* `prefix_matches[0][3] > 0.5`, in hundredths.
PrefixAcceptance == 50

\* similarity(card_name, query) of the cards that differ from the query, in
\* hundredths: below, at and above the default threshold and the 0.5 of the
\* prefix tier.
SimLevels == {20, 30, 50, 60}

\* What a row of mtg_cards is to one query: whether LOWER(card_name) equals
\* LOWER(query), whether card_name ILIKE query || '%', and pg_trgm's
\* similarity(card_name, query). A name equal to the query has similarity 1
\* and the query as a prefix.
CardKinds ==
    {[exact |-> TRUE, prefix |-> TRUE, sim |-> 100]} \cup
    {[exact |-> FALSE, prefix |-> p, sim |-> s] : p \in BOOLEAN, s \in SimLevels}

NameTables == UNION {[1..n -> CardKinds] : n \in 0..MaxDocs}

SimilarityThresholds == {DefaultSimilarityThreshold, 50}

\* strategies.search_by_card_name(query, top_k, similarity_threshold) is
\* called on a connected db.
InitName ==
    /\ op = "search_by_card_name"
    /\ pc = "exact"
    /\ names \in NameTables
    /\ top_k \in {SomeInt(k) : k \in 0..MaxTopK}
    /\ similarity_threshold \in SimilarityThresholds
    /\ documents = <<>>
    /\ InitLoop
    /\ InitNoSearch
    /\ InitNoWait
    /\ InitNoIngest

\* The rows of mtg_cards.
NameRows ==
    {[id |-> i, exact |-> names[i].exact, prefix |-> names[i].prefix,
      sim |-> names[i].sim] : i \in 1..Len(names)}

\* The lists holding every row of S once.
Orderings(S) ==
    {f \in [1..Cardinality(S) -> S] : \A a, b \in 1..Cardinality(S) : a # b => f[a] # f[b]}

\* ORDER BY sim DESC, and ORDER BY card_name <-> query (the trigram distance
\* is 1 - similarity): the order of rows of equal similarity is the
\* server's choice.
OrderBySimDesc(S) ==
    {f \in Orderings(S) : \A a, b \in 1..Len(f) : a < b => f[a].sim >= f[b].sim}

\* Mutant of FetchOne: every matching row is fetched.
FetchAll(S) == Orderings(S)

\* cursor.fetchone() on an unordered query: None (here the empty list) or
\* one row, whichever the server yields first.
FetchOne(S) == IF S = {} THEN {<<>>} ELSE {<<r>> : r \in S}

\* Tier 1: WHERE LOWER(card_name) = LOWER(%s); fetchone().
ExactQuery == FetchOne({r \in NameRows : r.exact})

\* Tier 2: WHERE card_name ILIKE %s || '%%' ORDER BY sim DESC LIMIT top_k.
PrefixQuery ==
    {SliceTo(f, top_k.val) : f \in OrderBySimDesc({r \in NameRows : r.prefix})}

\* Mutant of AboveThreshold: the threshold itself passes.
AtOrAboveThreshold(sim, th) == sim >= th

\* similarity(card_name, %s) > %s
AboveThreshold(sim, th) == sim > th

\* Tier 3: WHERE similarity(card_name, %s) > %s ORDER BY card_name <-> %s
\* LIMIT top_k.
FuzzyQuery ==
    {SliceTo(f, top_k.val) :
        f \in OrderBySimDesc({r \in NameRows : AboveThreshold(r.sim, similarity_threshold)})}

\* Mutant of PrefixIsFinal: a top similarity of exactly 0.5 is accepted.
PrefixIsFinalAtHalf(rows) == rows # <<>> /\ rows[1].sim >= PrefixAcceptance

\* `if prefix_matches and prefix_matches[0][3] > 0.5`
PrefixIsFinal(rows) == rows # <<>> /\ rows[1].sim > PrefixAcceptance

\* {..., 'similarity': float(row[3]), 'match_type': t}
NameResult(row, match_type, sim) ==
    [corpus |-> "cards", id |-> row.id, match_type |-> match_type,
     similarity |-> Num(sim, 100), distance |-> NoNum, score |-> NoNum]

\* [{...} for row in rows], the similarity being the row's fourth column.
NameResults(rows, match_type) ==
    [i \in 1..Len(rows) |-> NameResult(rows[i], match_type, rows[i].sim)]

\* Mutant of NextTier: the prefix tier is skipped.
NextTierSkipsPrefix(t) == "fuzzy"

\* The query that follows the query of tier t when t is not final.
NextTier(t) == IF t = "exact" THEN "prefix" ELSE "fuzzy"

NameUnchanged ==
    UNCHANGED <<op, max_retries, attempt, embedding, documents, top_k,
                response_text, ranking, reranked, reranker, tables, initial_k,
                final_k, ks, source, found, names, similarity_threshold,
                waitVars, ingestVars>>

\* self.db.execute(...) of a tier raises: search_by_card_name does not catch
\* it.
NameQueryError ==
    /\ op = "search_by_card_name"
    /\ pc \in {"exact", "prefix", "fuzzy"}
    /\ trace' = trace \o Db("execute", pc, "error")
    /\ Raise
    /\ UNCHANGED <<candidates, results>>
    /\ NameUnchanged

\* Tier 1 found a row: `if exact_match: return [{... 'similarity':
\* float(exact_match[3]), 'match_type': 'exact'}]`, the fourth column being
\* the literal 1.0.
NameExactFound ==
    /\ op = "search_by_card_name"
    /\ pc = "exact"
    /\ \E rows \in ExactQuery :
          /\ rows # <<>>
          /\ results' = [i \in 1..Len(rows) |-> NameResult(rows[i], "exact", 100)]
    /\ trace' = trace \o Db("execute", "exact", "ok")
    /\ Return
    /\ UNCHANGED candidates
    /\ NameUnchanged

\* Tier 1 found nothing: the prefix query is next.
NameExactNone ==
    /\ op = "search_by_card_name"
    /\ pc = "exact"
    /\ <<>> \in ExactQuery
    /\ trace' = trace \o Db("execute", "exact", "ok")
    /\ pc' = NextTier(pc)
    /\ UNCHANGED <<candidates, results, returned, raised>>
    /\ NameUnchanged

\* Tier 2 is final: every fetched row is returned tagged 'prefix'.
NamePrefixFinal ==
    /\ op = "search_by_card_name"
    /\ pc = "prefix"
    /\ \E rows \in PrefixQuery :
          /\ PrefixIsFinal(rows)
          /\ candidates' = rows
          /\ results' = NameResults(rows, "prefix")
    /\ trace' = trace \o Db("execute", "prefix", "ok")
    /\ Return
    /\ NameUnchanged

\* Tier 2 is not final: prefix_matches is kept but not returned, the fuzzy
\* query is next.
NamePrefixNotFinal ==
    /\ op = "search_by_card_name"
    /\ pc = "prefix"
    /\ \E rows \in PrefixQuery :
          /\ ~PrefixIsFinal(rows)
          /\ candidates' = rows
    /\ trace' = trace \o Db("execute", "prefix", "ok")
    /\ pc' = NextTier(pc)
    /\ UNCHANGED <<results, returned, raised>>
    /\ NameUnchanged

\* Mutant of NameFuzzy: the prefix rows fetched before are returned as well.
NameFuzzyKeepsPrefix ==
    /\ op = "search_by_card_name"
    /\ pc = "fuzzy"
    /\ \E rows \in FuzzyQuery :
          results' = NameResults(candidates, "prefix") \o NameResults(rows, "fuzzy_trigram")
    /\ trace' = trace \o Db("execute", "fuzzy", "ok")
    /\ Return
    /\ UNCHANGED candidates
    /\ NameUnchanged

\* Tier 3: whatever the fuzzy query fetched is returned tagged
\* 'fuzzy_trigram'.
NameFuzzy ==
    /\ op = "search_by_card_name"
    /\ pc = "fuzzy"
    /\ \E rows \in FuzzyQuery : results' = NameResults(rows, "fuzzy_trigram")
    /\ trace' = trace \o Db("execute", "fuzzy", "ok")
    /\ Return
    /\ UNCHANGED candidates
    /\ NameUnchanged

NextName ==
    \/ NameQueryError
    \/ NameExactFound
    \/ NameExactNone
    \/ NamePrefixFinal
    \/ NamePrefixNotFinal
    \/ NameFuzzy

SpecName == InitName /\ [][NextName]_vars

\* ----------------------------------------- every caller of OllamaReranker
\* rerank called on its own, by a strategy, or by search_all_sources.
InitRerankers == Init \/ InitSearch \/ InitAll

NextRerankers ==
    \/ EmbedRequestException
    \/ EmbedStatusNot200
    \/ EmbedOk
    \/ RerankEmpty
    \/ StrategyQueryError
    \/ StrategyNoCandidates
    \/ StrategyVectorOnly
    \/ StrategyFloatTypeError
    \/ StrategyStartRerank
    \/ SourceConnectError
    \/ SourceExecuteError
    \/ SourceCommitError
    \/ SourceNoCandidates
    \/ SourceStartRerank
    \/ RerankRequestException
    \/ RerankStatusNot200
    \/ RerankOkNoDigits
    \/ RerankOkDigits

SpecRerankers == InitRerankers /\ [][NextRerankers]_vars

\* ------------------------------------ every strategy of search_strategies.py
InitStrategies == InitSearch \/ InitName

NextStrategies == NextSearch \/ NextName

SpecStrategies == InitStrategies /\ [][NextStrategies]_vars

\* ------------------------------------------- wait_for_ollama (db_utils.py)
\* delay: int = 2
DefaultDelay == 2

Delays == {1, DefaultDelay}

\* wait_for_ollama(max_attempts, delay) is called; every connection test
\* calls generate_embedding("test", max_retries=1).
InitWait ==
    /\ op = "wait_for_ollama"
    /\ pc = "wait"
    /\ max_attempts \in 1..MaxAttempts
    /\ delay \in Delays
    /\ ready = FALSE
    /\ max_retries = 1
    /\ attempt = 0
    /\ embedding = NoneSeq
    /\ documents = <<>>
    /\ top_k = NoneInt
    /\ response_text = NoneSeq
    /\ ranking = NoneSeq
    /\ reranked = <<>>
    /\ returned = FALSE
    /\ raised = FALSE
    /\ trace = <<>>
    /\ InitNoSearch
    /\ InitNoName
    /\ InitNoIngest

\* test_connection returned b at attempt number att of wait_for_ollama.
Tested(att, b) == <<Event("test", "embed", att, IF b THEN "true" ELSE "false", 0)>>

\* The one request of generate_embedding("test", max_retries=1) when it
\* yields no embedding: an exception (no backoff, attempt 0 being the last),
\* a non-200 status, or a 200 reply without 'embedding'.
FailedTestRequests ==
    {ExceptionEvents("embed", 0, max_retries), StatusEvents("embed", 0, max_retries),
     Post("embed", 0, "ok")}

\* The except branch of wait_for_ollama: `if attempt < max_attempts - 1:
\* time.sleep(delay)`. test_connection catches every Exception itself, so no
\* step of the loop enters this branch.
WaitSleep(att) ==
    IF att < max_attempts - 1 THEN <<Event("sleep", "wait", att, "-", delay)>> ELSE <<>>

WaitUnchanged ==
    UNCHANGED <<op, max_retries, documents, top_k, response_text, ranking,
                reranked, reranker, tables, initial_k, final_k, candidates,
                results, ks, source, found, nameVars, max_attempts, delay,
                ingestVars>>

\* `if embedder.test_connection(): return True`
WaitTestTrue ==
    /\ op = "wait_for_ollama"
    /\ pc = "wait"
    /\ attempt \in RetryRange(max_attempts)
    /\ \E e \in EmbeddingReplies :
          /\ Truthy(e)
          /\ embedding' = e
    /\ trace' = trace \o Post("embed", 0, "ok") \o Tested(attempt, TRUE)
    /\ ready' = TRUE
    /\ Return
    /\ UNCHANGED attempt
    /\ WaitUnchanged

\* test_connection returned False, raising nothing: the for loop goes on at
\* once, or is exhausted and `return False` after the loop is reached.
WaitTestFalse ==
    /\ op = "wait_for_ollama"
    /\ pc = "wait"
    /\ attempt \in RetryRange(max_attempts)
    /\ \E request \in FailedTestRequests :
          trace' = trace \o request \o Tested(attempt, FALSE)
    /\ attempt' = attempt + 1
    /\ IF attempt + 1 \in RetryRange(max_attempts)
       THEN UNCHANGED <<pc, returned, raised>>
       ELSE Return
    /\ UNCHANGED <<embedding, ready>>
    /\ WaitUnchanged

NextWait ==
    \/ WaitTestTrue
    \/ WaitTestFalse

SpecWait == InitWait /\ [][NextWait]_vars

\* --------------------- ingest_rules, ingest_glossary, ingest_cards (src/db)
IngestOps == {"ingest_cards", "ingest_rules", "ingest_glossary"}

ClearingOps == {"ingest_rules", "ingest_glossary"}

\* The corpus whose tables the running ingest writes.
IngestCorpus ==
    CASE op = "ingest_cards" -> "cards"
      [] op = "ingest_rules" -> "rules"
      [] OTHER -> "glossary"

\* fields['card_name'] of the loaded cards.
CardNames == {"a", "b"}

\* What the scripts read of one loaded record: the card_name the duplicate
\* check compares, and whether create_card_nl_text gives a non-empty text.
\* ingest_rules and ingest_glossary compare nothing.
RecordsOf(o) ==
    IF o = "ingest_cards"
    THEN [name : CardNames, nl : BOOLEAN]
    ELSE [name : {"a"}, nl : {FALSE}]

\* The script is started on a JSON file of 0..MaxRecords records, the tables
\* of its corpus being empty before the first run.
InitIngest ==
    /\ op \in IngestOps
    /\ pc = "wait"
    /\ records \in UNION {[1..n -> RecordsOf(op)] : n \in 0..MaxRecords}
    /\ batch_size \in 1..MaxRecords
    /\ stored = NoData
    /\ pending = NoData
    /\ aborted = FALSE
    /\ batch_i = 0
    /\ ids = <<>>
    /\ next_id = 1
    /\ run_no = 1
    /\ inserted = 0
    /\ documents = <<>>
    /\ top_k = NoneInt
    /\ InitLoop
    /\ trace = <<>>
    /\ InitNoSearch
    /\ InitNoName
    /\ InitNoWait

\* batch = data[i:i + batch_size]
Batch == SubSeq(records, batch_i + 1, Min(batch_i + batch_size, Len(records)))

\* The row an INSERT ... RETURNING id adds for record number item of the file.
InsertedRow(id, name, item) == [id |-> id, name |-> name, run_no |-> run_no, item |-> item]

\* Mutant of RolledBack: conn.rollback() keeps what the transaction wrote.
RolledBackNothing == pending

\* What the connection sees after conn.rollback(): the committed rows.
RolledBack == stored

\* Mutant of DuplicateId: the id of the existing card is appended.
DuplicateIdOfExisting(existing) == SomeInt(existing)

\* `if existing: ... card_ids.append(None); continue`
DuplicateId(existing) == NoneInt

\* SELECT id FROM mtg_cards WHERE card_name = %s LIMIT 1, on the rows the
\* transaction sees: the ids of the rows of that name.
ExistingIds(rows, name) == {rows[p].id : p \in {q \in 1..Len(rows) : rows[q].name = name}}

\* The loop `for i, record in enumerate(card_records)` from card number p on.
\* st holds the rows the transaction sees, whether it is in the failed state,
\* card_ids, the id sequence and duplicates_skipped; the INSERT of the cards
\* whose number is in failing raises. In a failed transaction every statement
\* raises: the pre-check's `except: pass` swallows it, the INSERT's except
\* appends None.
RECURSIVE InsertCards(_, _, _, _)
InsertCards(batch, p, failing, st) ==
    IF p > Len(batch) THEN st
    ELSE LET existing == ExistingIds(st.rows, batch[p].name) IN
         InsertCards(batch, p + 1, failing,
            IF st.aborted
            THEN [st EXCEPT !.ids = Append(@, NoneInt)]
            ELSE IF existing # {}
            THEN [st EXCEPT !.ids = Append(@, DuplicateId(CHOOSE e \in existing : TRUE)),
                            !.dups = @ + 1]
            ELSE IF p \in failing
            THEN [st EXCEPT !.ids = Append(@, NoneInt), !.aborted = TRUE,
                            !.next_id = @ + 1]
            ELSE [st EXCEPT !.rows = Append(@, InsertedRow(st.next_id, batch[p].name, batch_i + p)),
                            !.ids = Append(@, SomeInt(st.next_id)),
                            !.next_id = @ + 1])

\* The embedding records built from zip(ids, embeddings) from position p on:
\* one per position of `got` (an embedding that is not None) holding an id.
RECURSIVE EmbeddingRecords(_, _, _, _)
EmbeddingRecords(idlist, p, got, kind) ==
    IF p > Len(idlist) THEN <<>>
    ELSE (IF p \in got /\ idlist[p].some
          THEN <<[id |-> idlist[p].val, kind |-> kind]>>
          ELSE <<>>) \o EmbeddingRecords(idlist, p + 1, got, kind)

\* The positions of the batch whose card was inserted and has a text:
\* `if card_id is not None and nl_text`.
NlPositions == {p \in 1..Len(ids) : ids[p].some /\ Batch[p].nl}

IngestUnchanged ==
    UNCHANGED <<op, max_retries, attempt, embedding, documents, top_k,
                response_text, ranking, reranked, reranker, tables, initial_k,
                final_k, candidates, results, ks, source, found, nameVars,
                max_attempts, delay, records, batch_size>>

\* wait_for_postgres or wait_for_ollama returned False, or the JSON file did
\* not load: `return False`.
IngestNotReady ==
    /\ op \in IngestOps
    /\ pc = "wait"
    /\ ready' = FALSE
    /\ Return
    /\ UNCHANGED <<trace, stored, pending, aborted, batch_i, ids, next_id,
                   run_no, inserted>>
    /\ IngestUnchanged

\* `with DatabaseConnection(**db_config) as db:` connects; the new
\* connection sees the committed rows.
IngestConnect ==
    /\ op \in IngestOps
    /\ pc = "wait"
    /\ ready' = TRUE
    /\ pending' = stored
    /\ trace' = trace \o Db("connect", IngestCorpus, "ok")
    /\ pc' = IF op \in ClearingOps THEN "delete" ELSE "count"
    /\ UNCHANGED <<returned, raised, stored, aborted, batch_i, ids,
                   next_id, run_no, inserted>>
    /\ IngestUnchanged

\* connect raises: the with block is not entered.
IngestConnectError ==
    /\ op \in IngestOps
    /\ pc = "wait"
    /\ ready' = TRUE
    /\ trace' = trace \o Db("connect", IngestCorpus, "error")
    /\ Raise
    /\ UNCHANGED <<stored, pending, aborted, batch_i, ids, next_id, run_no,
                   inserted>>
    /\ IngestUnchanged

\* db.execute("DELETE FROM <embeddings>"); db.execute("DELETE FROM <primary>")
IngestDelete ==
    /\ op \in ClearingOps
    /\ pc = "delete"
    /\ pending' = NoData
    /\ trace' = trace \o Db("execute", IngestCorpus, "ok")
                      \o Db("execute", IngestCorpus, "ok")
    /\ pc' = "clear_commit"
    /\ UNCHANGED <<returned, raised, ready, stored, aborted, batch_i, ids,
                   next_id, run_no, inserted>>
    /\ IngestUnchanged

\* db.commit() after the two DELETEs.
IngestClearCommit ==
    /\ op \in ClearingOps
    /\ pc = "clear_commit"
    /\ stored' = pending
    /\ trace' = trace \o Db("commit", IngestCorpus, "ok")
    /\ pc' = "batch"
    /\ UNCHANGED <<returned, raised, ready, pending, aborted, batch_i, ids,
                   next_id, run_no, inserted>>
    /\ IngestUnchanged

\* db.execute("SELECT COUNT(*) FROM mtg_cards"): skip_structured is set and
\* never read.
CardsCount ==
    /\ op = "ingest_cards"
    /\ pc = "count"
    /\ trace' = trace \o Db("execute", IngestCorpus, "ok")
    /\ pc' = "batch"
    /\ UNCHANGED <<returned, raised, ready, stored, pending, aborted, batch_i,
                   ids, next_id, run_no, inserted>>
    /\ IngestUnchanged

\* The INSERT ... RETURNING id of every record of the batch, in order.
IngestInsert ==
    /\ op \in ClearingOps
    /\ pc = "batch"
    /\ batch_i < Len(records)
    /\ ids' = [p \in 1..Len(Batch) |-> SomeInt(next_id + p - 1)]
    /\ pending' = [pending EXCEPT !.rows =
                      @ \o [p \in 1..Len(Batch) |->
                               InsertedRow(next_id + p - 1, Batch[p].name, batch_i + p)]]
    /\ next_id' = next_id + Len(Batch)
    /\ inserted' = inserted + Len(Batch)
    /\ pc' = "embed"
    /\ UNCHANGED <<returned, raised, ready, trace, stored, aborted, batch_i,
                   run_no>>
    /\ IngestUnchanged

\* The duplicate check and the INSERT of every card of the batch; the INSERT
\* of some cards may raise, which ingest_cards catches.
CardsInsert ==
    /\ op = "ingest_cards"
    /\ pc = "batch"
    /\ batch_i < Len(records)
    /\ \E failing \in SUBSET (1..Len(Batch)) :
          LET st == InsertCards(Batch, 1, failing,
                        [rows |-> pending.rows, aborted |-> aborted, ids |-> <<>>,
                         next_id |-> next_id, dups |-> 0])
          IN  /\ pending' = [pending EXCEPT !.rows = st.rows]
              /\ aborted' = st.aborted
              /\ ids' = st.ids
              /\ next_id' = st.next_id
              /\ inserted' = inserted + (Len(st.ids) - st.dups)
    /\ pc' = "embed"
    /\ UNCHANGED <<returned, raised, ready, trace, stored, batch_i, run_no>>
    /\ IngestUnchanged

\* generate_embeddings_batch, then executemany of the embedding records when
\* there are any; the embeddings of the positions in `got` are not None.
IngestEmbed ==
    /\ op \in IngestOps
    /\ pc = "embed"
    /\ \E got \in SUBSET (1..Len(ids)) :
          LET recs == EmbeddingRecords(ids, 1, got, "structured")
          IN  /\ ~(aborted /\ recs # <<>>)
              /\ pending' = [pending EXCEPT !.embs = @ \o recs]
    /\ pc' = IF op = "ingest_cards" THEN "nl" ELSE "commit"
    /\ UNCHANGED <<returned, raised, ready, trace, stored, aborted, batch_i,
                   ids, next_id, run_no, inserted>>
    /\ IngestUnchanged

\* The same for the natural-language embeddings of the cards that were
\* inserted and have a text.
CardsNlEmbed ==
    /\ op = "ingest_cards"
    /\ pc = "nl"
    /\ \E got \in SUBSET NlPositions :
          LET recs == EmbeddingRecords(ids, 1, got, "nl")
          IN  /\ ~(aborted /\ recs # <<>>)
              /\ pending' = [pending EXCEPT !.embs = @ \o recs]
    /\ pc' = "commit"
    /\ UNCHANGED <<returned, raised, ready, trace, stored, aborted, batch_i,
                   ids, next_id, run_no, inserted>>
    /\ IngestUnchanged

\* db.commit() at the end of a batch. The COMMIT of a failed transaction
\* rolls it back without raising.
IngestCommit ==
    /\ op \in IngestOps
    /\ pc = "commit"
    /\ stored' = IF aborted THEN RolledBack ELSE pending
    /\ pending' = stored'
    /\ aborted' = FALSE
    /\ trace' = trace \o Db("commit", IngestCorpus, "ok")
    /\ batch_i' = batch_i + batch_size
    /\ pc' = "batch"
    /\ UNCHANGED <<returned, raised, ready, ids, next_id, run_no, inserted>>
    /\ IngestUnchanged

\* A statement inside the with block raises and nothing catches it (in
\* ingest_cards the INSERT of a card is caught; executemany raises whenever
\* the transaction is in the failed state): __exit__ rolls back, closes, and
\* the exception leaves the script.
IngestError ==
    /\ op \in IngestOps
    /\ \/ pc \in {"count", "delete", "clear_commit", "embed", "nl", "commit"}
       \/ pc = "batch" /\ op \in ClearingOps /\ batch_i < Len(records)
    /\ pending' = RolledBack
    /\ aborted' = FALSE
    /\ trace' = trace \o Db(IF pc \in {"clear_commit", "commit"} THEN "commit" ELSE "execute",
                            IngestCorpus, "error")
                      \o Db("rollback", IngestCorpus, "ok")
                      \o Db("close", IngestCorpus, "ok")
    /\ Raise
    /\ UNCHANGED <<ready, stored, batch_i, ids, next_id, run_no, inserted>>
    /\ IngestUnchanged

\* The batch loop is over: __exit__ commits and closes; the summary then
\* divides by the number of inserted records, raising ZeroDivisionError when
\* it is 0, else the script returns True.
IngestFinish ==
    /\ op \in IngestOps
    /\ pc = "batch"
    /\ batch_i >= Len(records)
    /\ stored' = pending
    /\ trace' = trace \o Db("commit", IngestCorpus, "ok") \o Db("close", IngestCorpus, "ok")
    /\ IF inserted = 0 THEN Raise ELSE Return
    /\ UNCHANGED <<ready, pending, aborted, batch_i, ids, next_id, run_no,
                   inserted>>
    /\ IngestUnchanged

\* The script is run again on the same file and the same database.
IngestAgain ==
    /\ op \in IngestOps
    /\ pc = "done"
    /\ run_no < MaxRuns
    /\ run_no' = run_no + 1
    /\ pc' = "wait"
    /\ returned' = FALSE
    /\ raised' = FALSE
    /\ ready' = FALSE
    /\ trace' = <<>>
    /\ batch_i' = 0
    /\ ids' = <<>>
    /\ inserted' = 0
    /\ UNCHANGED <<stored, pending, aborted, next_id>>
    /\ IngestUnchanged

NextIngest ==
    \/ IngestNotReady
    \/ IngestConnect
    \/ IngestConnectError
    \/ IngestDelete
    \/ IngestClearCommit
    \/ CardsCount
    \/ IngestInsert
    \/ CardsInsert
    \/ IngestEmbed
    \/ CardsNlEmbed
    \/ IngestCommit
    \/ IngestError
    \/ IngestFinish
    \/ IngestAgain

SpecIngest == InitIngest /\ [][NextIngest]_vars

\* ======================================================================
\* Claims
\* ======================================================================
N == Len(documents)

PostsOf(who) == {j \in 1..Len(trace) : trace[j].ev = "post" /\ trace[j].who = who}

\* Every request of `who` made so far failed in one of the given ways.
AllPostsIn(who, outs) == \A j \in PostsOf(who) : trace[j].out \in outs

RerankDone == op = "rerank" /\ pc = "done"

\* r holds every index of 0..n-1 exactly once.
IsPermutation(r, n) ==
    /\ Len(r) = n
    /\ \A i \in 0..(n - 1) : Cardinality({p \in 1..Len(r) : r[p] = i}) = 1

\* The digit runs of the response rerank parsed, as numbers.
RECURSIVE NumbersOf(_)
NumbersOf(runs) ==
    IF runs = <<>> THEN <<>> ELSE <<ParseInt(Head(runs))>> \o NumbersOf(Tail(runs))

ResponseNumbers == NumbersOf(FindAllDigits(Strip(response_text.val), 1, <<>>))

\* C1 (as claimed): whenever _get_batch_ranking returns a ranking for N >= 1
\* documents, it has length N and holds every index of 0..N-1 exactly once,
\* and rerank with top_k = None then returns every document exactly once.
C1_RankingIsPermutation ==
    (RerankDone /\ ranking.some) =>
        /\ IsPermutation(ranking.val, N)
        /\ ~top_k.some =>
              \A i \in 0..(N - 1) :
                  Cardinality({p \in 1..Len(reranked) : reranked[p].index = i}) = 1
\* C2: if every attempt of the ranking request fails (exception, non-200) or
\* yields no digit run, rerank raises nothing and returns the first
\* min(top_k, N) documents (all N without top_k) in their original order,
\* each with index equal to its position and score exactly 0.5.
C2_FallbackOriginalOrder ==
    (RerankDone /\ AllPostsIn("rerank", {"exception", "status", "nodigits"})) =>
        /\ ~raised
        /\ Len(reranked) = (IF top_k.some THEN Min(top_k.val, N) ELSE N)
        /\ \A p \in 1..Len(reranked) :
              /\ reranked[p].index = p - 1
              /\ reranked[p].text = documents[p]
              /\ reranked[p].score.num = 1
              /\ reranked[p].score.den = 2

\* C2 witness: three failed attempts on 3 documents with top_k = 1.
C2_Witness ==
    /\ RerankDone
    /\ Cardinality(PostsOf("rerank")) = max_retries
    /\ AllPostsIn("rerank", {"exception", "status", "nodigits"})
    /\ N = 3
    /\ top_k = SomeInt(1)
    /\ Len(reranked) = 1

\* Every request of the loop of `who` was made and failed with an exception
\* or a non-200 status.
Exhausted(who) ==
    /\ Cardinality(PostsOf(who)) = max_retries
    /\ AllPostsIn(who, {"exception", "status"})

\* C6: generate_embedding and _get_batch_ranking make at most max_retries
\* requests; when all of them fail with an exception or a non-200 status the
\* call has returned None and raised nothing.
C6_BoundedRetries ==
    /\ Cardinality(PostsOf("embed")) <= max_retries
    /\ Cardinality(PostsOf("rerank")) <= max_retries
    /\ (op = "generate_embedding" /\ Exhausted("embed")) =>
          (pc = "done" /\ returned /\ ~raised /\ embedding = NoneSeq)
    /\ (op = "rerank" /\ Exhausted("rerank")) =>
          (pc = "done" /\ returned /\ ~raised /\ ranking = NoneSeq)

\* C6 witness: generate_embedding has returned None after max_retries requests
\* of which the first raised and the last was answered with a non-200 status.
C6_Witness ==
    /\ op = "generate_embedding"
    /\ Exhausted("embed")
    /\ trace[1].out = "exception"
    /\ trace[Len(trace)].out = "status"
    /\ returned
    /\ embedding = NoneSeq

\* C7 (as claimed): whenever attempt i fails and another attempt follows, the
\* client sleeps 2^i between the two, whatever the kind of failure; no sleep
\* follows the last attempt.
C7_BackoffAfterEveryFailure ==
    \A j \in 1..Len(trace) :
        trace[j].ev = "post" =>
            IF trace[j].out # "ok" /\ \E l \in (j + 1)..Len(trace) : trace[l].ev = "post"
            THEN /\ trace[j + 1].ev = "sleep"
                 /\ trace[j + 1].secs = Pow2(trace[j].attempt)
            ELSE (pc = "done" /\ j < Len(trace)) => trace[j + 1].ev # "sleep"

\* C8: when a ranking is obtained, the item at 0-based position r scores
\* 1 - r/N with N the number of input documents: the first scores exactly 1,
\* scores strictly decrease and all lie in (0, 1].
C8_ScoreByPosition ==
    (RerankDone /\ Truthy(ranking)) =>
        /\ \A p \in 1..Len(reranked) :
              /\ reranked[p].score.den = N
              /\ reranked[p].score.num = N - (p - 1)
              /\ 0 < reranked[p].score.num
              /\ reranked[p].score.num <= reranked[p].score.den
        /\ Len(reranked) >= 1 => reranked[1].score.num = reranked[1].score.den
        /\ \A p \in 1..(Len(reranked) - 1) :
              reranked[p].score.num * reranked[p + 1].score.den
                  > reranked[p + 1].score.num * reranked[p].score.den

\* C8 witness: a ranking of 3 documents cut to top_k = 2.
C8_Witness ==
    /\ RerankDone
    /\ Truthy(ranking)
    /\ N = 3
    /\ top_k = SomeInt(2)
    /\ Len(reranked) = 2
    /\ reranked[2].score = [num |-> 2, den |-> 3]

\* The in-range document numbers of the response, 0-based, in response order.
MentionedIndices ==
    LET nums == ResponseNumbers
        keep == {j \in 1..Len(nums) : 1 <= nums[j] /\ nums[j] <= N}
        F[j \in 0..Len(nums)] ==
            IF j = 0 THEN <<>>
            ELSE IF j \in keep THEN Append(F[j - 1], nums[j] - 1) ELSE F[j - 1]
    IN F[Len(nums)]

Distinct(s) == \A a, b \in 1..Len(s) : a # b => s[a] # s[b]

C10_NoDigitsNoRanking ==
    /\ ranking.some =>
          /\ trace[Len(trace)].out = "ok"
          /\ response_text.some
          /\ \E j \in 1..Len(response_text.val) : response_text.val[j] \in DigitChars
    /\ (RerankDone /\ N >= 1 /\ ~(\E j \in PostsOf("rerank") : trace[j].out = "ok")) =>
          /\ ranking = NoneSeq
          /\ \A p \in 1..Len(reranked) : reranked[p].score = HalfScore

\* C10 witness: the last of three attempts was a 200 reply without digits.
C10_Witness ==
    /\ RerankDone
    /\ N = 2
    /\ Cardinality(PostsOf("rerank")) = max_retries
    /\ trace[Len(trace)].out = "nodigits"
    /\ response_text = SomeSeq(<<" ">>)
    /\ ranking = NoneSeq
    /\ Len(reranked) = 2
\* ---------------------------------------------------------------- searches
RerankingOps == {"search_by_card_description", "search_rules_text", "search_glossary_terms"}

DbErrors == {j \in 1..Len(trace) : trace[j].who \in Corpora /\ trace[j].out = "error"}

\* C3 (as claimed): if generate_embedding returned None after its retries,
\* each vector search strategy returns an empty list and raises no exception
\* (the datastore itself answering the query without error).
C3_NoEmbeddingEmptyResult ==
    (op \in StrategyOps /\ pc = "done" /\ Exhausted("embed") /\ ~embedding.some
        /\ DbErrors = {}) =>
        /\ returned
        /\ ~raised
        /\ results = <<>>

\* C4 (as claimed): in search_all_sources an exception raised while one
\* source is searched does not abort the others: every source is searched
\* and the call returns its per-source results.
C4_SourceFailureIsolated ==
    (op = "search_all_sources" /\ pc = "done" /\ DbErrors # {}) =>
        /\ ~raised
        /\ returned
        /\ \A c \in Corpora :
              \E j \in 1..Len(trace) : trace[j].who = c /\ trace[j].ev = "connect"

\* C5 (as claimed): with or without a reranker, and whether or not reranking
\* succeeds, search_by_card_description, search_rules_text and
\* search_glossary_terms return at most final_k results and at most the
\* number of retrieved candidates.
C5_AtMostFinalK ==
    (op \in RerankingOps /\ returned) =>
        /\ Len(results) <= final_k
        /\ Len(results) <= Len(candidates)

\* C5 (amended): with a reranker configured these strategies return at most
\* final_k results, whether or not reranking succeeds; without one they
\* return every retrieved candidate, at most initial_k, not cut to final_k.
C5_AtMostFinalKWhenReranking ==
    (op \in RerankingOps /\ returned) =>
        /\ Len(results) <= Len(candidates)
        /\ Len(candidates) <= initial_k
        /\ reranker => Len(results) = Min(final_k, Len(candidates))
        /\ ~reranker => Len(results) = Len(candidates)

\* C5 witness: reranking failed on 3 candidates and the fallback list was cut
\* to final_k = 2.
C5_Witness ==
    /\ op = "search_rules_text"
    /\ returned
    /\ reranker
    /\ ~ranking.some
    /\ Len(candidates) = 3
    /\ final_k = 2
    /\ Len(results) = 2

\* C11 (as claimed): with a reranker configured, results returned after no
\* ranking was obtained (the fallback) carry a match_type other than the one
\* successfully reranked results carry.
C11_FallbackTaggedUnranked ==
    (op \in RerankingOps /\ returned /\ reranker /\ candidates # <<>>
        /\ ranking = NoneSeq) =>
        \A p \in 1..Len(results) : results[p].match_type # "vector_reranked"


\* ------------------------------------------------------ search_by_card_name
NameDone == op = "search_by_card_name" /\ pc = "done"

QueryErrors == {j \in 1..Len(trace) : trace[j].ev = "execute" /\ trace[j].out = "error"}

\* The tiers queried so far, in the order of their queries.
TiersQueried == [j \in 1..Len(trace) |-> trace[j].who]

IsPrefixOf(s, t) == Len(s) <= Len(t) /\ \A j \in 1..Len(s) : s[j] = t[j]

\* The similarities of a result list do not grow (the trigram distances,
\* 1 - similarity, do not shrink).
DescendingSimilarity(rs) ==
    \A a, b \in 1..Len(rs) : a < b => rs[a].similarity.num >= rs[b].similarity.num

\* C12: when some card name equals the query case-insensitively,
\* search_by_card_name returns exactly one result, of similarity 1.0 and
\* match_type 'exact', one of the equal names, whatever top_k is and however
\* many rows match, and the exact query is the only query it issues.
C12_ExactMatchSingleResult ==
    (NameDone /\ QueryErrors = {} /\ \E r \in NameRows : r.exact) =>
        /\ returned
        /\ ~raised
        /\ Len(results) = 1
        /\ results[1].match_type = "exact"
        /\ results[1].similarity.some
        /\ results[1].similarity.num = results[1].similarity.den
        /\ names[results[1].id].exact
        /\ TiersQueried = <<"exact">>

\* C12 witness: two of three names equal the query and top_k is 0; one
\* result came back.
C12_Witness ==
    /\ NameDone
    /\ returned
    /\ Len(names) = 3
    /\ Cardinality({r \in NameRows : r.exact}) = 2
    /\ top_k = SomeInt(0)
    /\ Len(results) = 1
    /\ results[1].match_type = "exact"

\* C13: search_by_card_name queries the tiers in the order exact, prefix,
\* fuzzy, each at most once and none skipped; the prefix query follows an
\* exact query that returned nothing, the fuzzy query follows a prefix query
\* whose rows were not accepted, and the call returns at the first accepted
\* tier with that tier's tag.
C13_TiersInOrder ==
    op = "search_by_card_name" =>
        /\ IsPrefixOf(TiersQueried, <<"exact", "prefix", "fuzzy">>)
        /\ Len(trace) >= 2 =>
              /\ trace[1].out = "ok"
              /\ ~(\E r \in NameRows : r.exact)
        /\ Len(trace) >= 3 =>
              /\ trace[2].out = "ok"
              /\ candidates = <<>> \/ candidates[1].sim <= PrefixAcceptance
        /\ (returned /\ Len(trace) = 1) =>
              \A p \in 1..Len(results) : results[p].match_type = "exact"
        /\ (returned /\ Len(trace) = 2) =>
              /\ candidates # <<>>
              /\ candidates[1].sim > PrefixAcceptance
              /\ \A p \in 1..Len(results) : results[p].match_type = "prefix"
        /\ (returned /\ Len(trace) = 3) =>
              \A p \in 1..Len(results) : results[p].match_type = "fuzzy_trigram"
        /\ returned => trace[Len(trace)].out = "ok"

\* C13 witness: all three tiers were queried; the prefix query had fetched
\* rows that were not accepted and the fuzzy query's rows were returned.
C13_Witness ==
    /\ NameDone
    /\ returned
    /\ TiersQueried = <<"exact", "prefix", "fuzzy">>
    /\ candidates # <<>>
    /\ results # <<>>


\* The rows whose name starts with the query, and those above the threshold.
PrefixRows == {r \in NameRows : r.prefix}

PassingRows == {r \in NameRows : r.sim > similarity_threshold}

\* rs lists min(top_k, |S|) rows of S, none twice, best similarity first,
\* and no row of S left out is better than one listed.
TopOf(rs, S) ==
    /\ Len(rs) = Min(top_k.val, Cardinality(S))
    /\ \A a \in 1..Len(rs) : rs[a] \in S
    /\ \A a, b \in 1..Len(rs) : a < b => (rs[a] # rs[b] /\ rs[a].sim >= rs[b].sim)
    /\ \A r \in S : \A a \in 1..Len(rs) :
          r.sim > rs[a].sim => \E b \in 1..Len(rs) : rs[b] = r

\* results is rows, row for row, each tagged t with its own similarity.
TaggedAs(rows, t) ==
    /\ Len(results) = Len(rows)
    /\ \A p \in 1..Len(rows) :
          /\ results[p].id = rows[p].id
          /\ results[p].match_type = t
          /\ results[p].similarity = Num(rows[p].sim, 100)

\* C14: with no exact match, the prefix tier is final exactly when its query
\* fetched at least one row and the first row's similarity is above 0.5 (a
\* top similarity of exactly 0.5 falls through to the fuzzy tier); the rows
\* fetched are the top_k best rows whose name starts with the query, and when
\* the tier is final the result is all of them, in descending similarity,
\* each tagged 'prefix', whatever their own similarity.
C14_PrefixFinalIffTopAboveHalf ==
    (NameDone /\ returned /\ ~(\E r \in NameRows : r.exact)) =>
        /\ TopOf(candidates, PrefixRows)
        /\ TiersQueried = <<"exact", "prefix">> <=>
              (candidates # <<>> /\ candidates[1].sim > 50)
        /\ TiersQueried = <<"exact", "prefix">> =>
              /\ TaggedAs(candidates, "prefix")
              /\ Len(results) <= top_k.val
              /\ DescendingSimilarity(results)
        /\ TiersQueried # <<"exact", "prefix">> =>
              /\ TiersQueried = <<"exact", "prefix", "fuzzy">>
              /\ \A p \in 1..Len(results) : results[p].match_type # "prefix"

\* C14 witness: the prefix tier was final with two rows, the second of
\* similarity 0.2.
C14_Witness ==
    /\ NameDone
    /\ returned
    /\ TiersQueried = <<"exact", "prefix">>
    /\ Len(results) = 2
    /\ results[1].similarity = Num(60, 100)
    /\ results[2].similarity = Num(20, 100)
    /\ results[2].match_type = "prefix"

\* C15: when the fuzzy tier is reached, the rows returned are the top_k rows
\* nearest in trigram distance among those of similarity strictly above
\* similarity_threshold, nearest first, each tagged 'fuzzy_trigram'; when no
\* row is above the threshold the call returns an empty list and raises
\* nothing.
C15_FuzzyAboveThreshold ==
    (NameDone /\ returned /\ TiersQueried = <<"exact", "prefix", "fuzzy">>) =>
        /\ ~raised
        /\ \A p \in 1..Len(results) :
              /\ results[p].similarity.some
              /\ results[p].similarity.den = 100
              /\ results[p].similarity.num > similarity_threshold
              /\ results[p].match_type = "fuzzy_trigram"
        /\ Len(results) <= top_k.val
        /\ DescendingSimilarity(results)
        /\ \E rows \in [1..Len(results) -> NameRows] :
              TopOf(rows, PassingRows) /\ TaggedAs(rows, "fuzzy_trigram")
        /\ PassingRows = {} => results = <<>>

\* C15 witness: the fuzzy tier returned a row while another row, of
\* similarity exactly similarity_threshold, was left out although top_k had
\* room for it.
C15_Witness ==
    /\ NameDone
    /\ returned
    /\ TiersQueried = <<"exact", "prefix", "fuzzy">>
    /\ similarity_threshold = DefaultSimilarityThreshold
    /\ \E r \in NameRows : r.sim = similarity_threshold
    /\ Len(results) = 1
    /\ top_k = SomeInt(2)


\* ------------------------------------------------------------ result shape
SimilarityTags == {"exact", "prefix", "fuzzy_trigram"}

DistanceTags == {"vector_only", "vector_ambiguous"}

ScoreTags == {"vector_reranked"}

\* The scoring keys result r has.
ScoreKeys(r) ==
    {k \in {"similarity", "distance", "score"} :
        CASE k = "similarity" -> r.similarity.some
          [] k = "distance" -> r.distance.some
          [] k = "score" -> r.score.some}

\* C16: every result a strategy of search_strategies.py returns has exactly
\* one of the keys similarity, distance, score, the one its match_type
\* names: similarity for exact, prefix, fuzzy_trigram; distance for
\* vector_only, vector_ambiguous; score for vector_reranked.
C16_OneScoreKeyPerMatchType ==
    (op \in StrategyOps \cup {"search_by_card_name"}) =>
        \A p \in 1..Len(results) :
            /\ results[p].match_type \in SimilarityTags \cup DistanceTags \cup ScoreTags
            /\ results[p].match_type \in SimilarityTags => ScoreKeys(results[p]) = {"similarity"}
            /\ results[p].match_type \in DistanceTags => ScoreKeys(results[p]) = {"distance"}
            /\ results[p].match_type \in ScoreTags => ScoreKeys(results[p]) = {"score"}

\* C16 witness: a strategy returned reranked results for candidates that had
\* a distance; the results carry the score alone.
C16_Witness ==
    /\ op = "search_glossary_terms"
    /\ returned
    /\ ranking.some
    /\ Len(results) = 2
    /\ \A i \in 1..Len(candidates) : candidates[i].distance.some
    /\ ScoreKeys(results[1]) = {"score"}


\* ------------------------------------------------------------- no reranker
RerankPosts == PostsOf("rerank")

\* results is the candidate list, row for row, with the row's distance.
CandidatesInRetrievalOrder ==
    /\ Len(results) = Len(candidates)
    /\ \A p \in 1..Len(results) :
          /\ results[p].id = candidates[p].id
          /\ results[p].distance.some
          /\ results[p].distance = candidates[p].distance
          /\ results[p].match_type = "vector_only"
          /\ ~results[p].score.some
    /\ \A a, b \in 1..Len(results) :
          a < b => results[a].distance.num * results[b].distance.den
                       <= results[b].distance.num * results[a].distance.den

\* C17 (as claimed): with no reranker configured, search_by_card_description,
\* search_rules_text and search_glossary_terms still succeed: no reranker
\* request is made and the retrieved candidates are returned in retrieval
\* order (ascending distance), each with its distance and match_type
\* 'vector_only' (the datastore itself answering the query without error).
C17_NoRerankerVectorOnly ==
    (op \in RerankingOps /\ pc = "done" /\ ~reranker /\ DbErrors = {}) =>
        /\ returned
        /\ ~raised
        /\ RerankPosts = {}
        /\ CandidatesInRetrievalOrder

\* What holds of C17 once the query embedding was obtained.
C17_WithEmbedding ==
    (op \in RerankingOps /\ pc = "done" /\ ~reranker /\ DbErrors = {}
        /\ Truthy(embedding)) =>
        /\ returned
        /\ ~raised
        /\ RerankPosts = {}
        /\ CandidatesInRetrievalOrder


\* ------------------------------------------------------ search_all_sources
\* The calls of generate_embedding: each starts with a request of attempt 0.
EmbedCalls == {j \in PostsOf("embed") : trace[j].attempt = 0}

\* The events of the per-source searches: datastore events and reranker
\* requests.
SourceEvents == {j \in 1..Len(trace) : trace[j].who \in Corpora \cup {"rerank"}}

EmbedOnceFirst ==
    op = "search_all_sources" =>
        /\ Cardinality(EmbedCalls) <= 1
        /\ pc # "embed" => Cardinality(EmbedCalls) = 1
        /\ \A j \in 1..Len(trace) : trace[j].who = "embed" => \A i \in SourceEvents : j < i
        /\ SourceEvents # {} => Truthy(embedding)

\* Once the sources are being searched the query embedding is the one
\* generate_embedding returned.
EmbeddingKept == (op = "search_all_sources" /\ pc # "embed") => embedding' = embedding

\* C18: one call of search_all_sources calls generate_embedding exactly once,
\* and every request of that call precedes every datastore event and
\* reranker request of the three searches; the searches make no embedding
\* request, and the embedding they are given stays the one that call
\* returned.
C18_EmbedOnceBeforeSources == []EmbedOnceFirst /\ [][EmbeddingKept]_vars

\* C18 witness: the embedding came at the second request, then all three
\* sources were searched and cards were reranked.
C18_Witness ==
    /\ op = "search_all_sources"
    /\ returned
    /\ Cardinality(PostsOf("embed")) = 2
    /\ \A c \in Corpora : found[c].some
    /\ found["cards"].val # <<>>
    /\ \A c \in Corpora : \E j \in SourceEvents : trace[j].who = c


\* search_all_sources is over and generate_embedding gave it None.
NoQueryEmbedding == op = "search_all_sources" /\ pc = "done" /\ ~Truthy(embedding)

EmptySearches ==
    {j \in 1..Len(trace) : /\ trace[j].ev = "close"
                           /\ trace[j - 1].ev = "commit"
                           /\ tables[trace[j].who] = 0}

\* C20: when the query fetches no candidate, search_by_card_description,
\* search_rules_text and search_glossary_terms return an empty list without
\* any reranker request, and so does each search_<corpus>_with_reranking
\* that search_all_sources calls; rerank on an empty document list returns
\* [] without any request.
C20_EmptyCandidatesNoRerank ==
    /\ (op \in RerankingOps /\ returned /\ candidates = <<>>) =>
          /\ results = <<>>
          /\ RerankPosts = {}
          /\ ~raised
    /\ op = "search_all_sources" =>
          \A j \in EmptySearches :
              /\ j < Len(trace) => trace[j + 1].who # "rerank"
              /\ (j < Len(trace) \/ pc = "done") => found[trace[j].who] = SomeSeq(<<>>)
    /\ (op = "rerank" /\ pc = "done" /\ documents = <<>>) =>
          /\ returned
          /\ reranked = <<>>
          /\ trace = <<>>

\* C20 witness: search_rules_text with a reranker configured queried an empty
\* table and returned.
C20_Witness ==
    /\ op = "search_rules_text"
    /\ returned
    /\ reranker
    /\ tables["rules"] = 0
    /\ candidates = <<>>
    /\ results = <<>>
    /\ trace[Len(trace)].ev = "execute"


\* ------------------------------------------------------------ echo ranking
\* The reranker answered with the document numbers 1, 2, ..., N in order.
EchoResponse ==
    /\ N >= 1
    /\ response_text.some
    /\ ResponseNumbers = [i \in 1..N |-> i]

\* C21: when the response names the documents 1, 2, ..., N in that order,
\* the ranking is the identity and rerank returns the documents in their
\* original order (all N of them without top_k, the first top_k otherwise),
\* scored exactly 1 at the first position and strictly less at each next one.
C21_EchoKeepsOrder ==
    (RerankDone /\ EchoResponse) =>
        /\ ranking = SomeSeq([i \in 1..N |-> i - 1])
        /\ Len(reranked) = (IF top_k.some THEN Min(top_k.val, N) ELSE N)
        /\ \A p \in 1..Len(reranked) :
              /\ reranked[p].index = p - 1
              /\ reranked[p].text = documents[p]
        /\ Len(reranked) >= 1 => reranked[1].score = [num |-> N, den |-> N]
        /\ \A p \in 1..(Len(reranked) - 1) :
              reranked[p].score.num * reranked[p + 1].score.den
                  > reranked[p + 1].score.num * reranked[p].score.den

\* C21 witness: "1 2 3 4 5" on 5 documents, all of them returned.
C21_Witness ==
    /\ RerankDone
    /\ EchoResponse
    /\ N = 5
    /\ response_text.val = <<"1", " ", "2", " ", "3", " ", "4", " ", "5">>
    /\ ~top_k.some
    /\ Len(reranked) = 5
    /\ reranked[5].index = 4


\* ----------------------------------------------------------- step order
\* The positions in the trace of the datastore queries of a strategy.
Retrievals == {j \in 1..Len(trace) : trace[j].ev = "execute"}

\* The calls of rerank: each starts with a request of attempt 0.
RerankCalls == {j \in RerankPosts : trace[j].attempt = 0}

\* C22: in one call of search_by_card_description, search_rules_text or
\* search_glossary_terms the embedding call, the datastore query and the
\* rerank call each happen at most once and in that order: every embedding
\* request precedes the query, which is issued only once generate_embedding
\* has returned, and every reranker request follows a query that fetched
\* rows.
C22_EmbedRetrieveRerank ==
    op \in RerankingOps =>
        /\ Cardinality(EmbedCalls) <= 1
        /\ Cardinality(Retrievals) <= 1
        /\ Cardinality(RerankCalls) <= 1
        /\ \A j \in Retrievals :
              /\ pc # "embed"
              /\ j > 1
              /\ \A i \in 1..(j - 1) : trace[i].who = "embed"
              /\ \A i \in (j + 1)..Len(trace) : trace[i].who = "rerank"
        /\ \A j \in 1..Len(trace) : trace[j].who = "rerank" =>
              /\ Retrievals # {}
              /\ \A i \in Retrievals : i < j /\ trace[i].out = "ok"
              /\ candidates # <<>>
        /\ \A j \in 1..Len(trace) : trace[j].who = "embed" => \A i \in Retrievals : j < i

\* C22 witness: the embedding came at the second request, one query fetched
\* rows and the ranking came at the second reranker request.
C22_Witness ==
    /\ op = "search_by_card_description"
    /\ returned
    /\ ranking.some
    /\ Cardinality(PostsOf("embed")) = 2
    /\ Cardinality(Retrievals) = 1
    /\ Cardinality(RerankPosts) = 2
    /\ Len(results) = 2


\* -------------------------------------------------- out-of-range numbers
\* The response holds digit runs and none of them is a number of 1..N.
OnlyOutOfRange ==
    /\ N >= 1
    /\ response_text.some
    /\ ResponseNumbers # <<>>
    /\ MentionedIndices = <<>>

\* C23: when the response holds digit runs of which none names a document
\* of 1..N, _get_batch_ranking returns the identity 0..N-1 and rerank treats
\* it as a ranking: the documents come back in their original order with
\* score 1 - r/N at 0-based position r, the first scoring 1 and not the 0.5
\* of the fallback.
C23_OutOfRangeIsIdentity ==
    (RerankDone /\ OnlyOutOfRange) =>
        /\ ranking = SomeSeq([i \in 1..N |-> i - 1])
        /\ Len(reranked) = (IF top_k.some THEN Min(top_k.val, N) ELSE N)
        /\ \A p \in 1..Len(reranked) :
              /\ reranked[p].index = p - 1
              /\ reranked[p].text = documents[p]
              /\ reranked[p].score = [num |-> N - (p - 1), den |-> N]
        /\ Len(reranked) >= 1 => reranked[1].score # HalfScore

\* C23 witness: the response "0" on 3 documents, all of them returned.
C23_Witness ==
    /\ RerankDone
    /\ OnlyOutOfRange
    /\ N = 3
    /\ response_text.val = <<"0">>
    /\ ~top_k.some
    /\ Len(reranked) = 3
    /\ reranked[3].score = [num |-> 1, den |-> 3]


\* ------------------------------------------------------------ connections
\* The connections open after the first j events: those connected and not
\* yet closed.
OpenAt(j) ==
    Cardinality({i \in 1..j : trace[i].ev = "connect" /\ trace[i].out = "ok"})
        - Cardinality({i \in 1..j : trace[i].ev = "close"})

\* C24: during search_all_sources at most one datastore connection is open
\* at any time; every source opens one connection of its own, when none is
\* open, and that connection has been committed or rolled back and then
\* closed before any reranker request for the source and before the next
\* source connects.
C24_OneConnectionAtATime ==
    op = "search_all_sources" =>
        /\ \A j \in 1..Len(trace) :
              /\ OpenAt(j) \in {0, 1}
              /\ (trace[j].ev = "connect" /\ j > 1) => OpenAt(j - 1) = 0
              /\ trace[j].who = "rerank" =>
                    /\ OpenAt(j) = 0
                    /\ \E i \in 2..(j - 1) :
                          /\ trace[i].ev = "close"
                          /\ trace[i - 1].ev = "commit"
                          /\ trace[i - 1].out = "ok"
                          /\ trace[i - 1].who = trace[i].who
                          /\ \A l \in (i + 1)..j : trace[l].who = "rerank"
              /\ trace[j].ev = "close" =>
                    /\ trace[j - 1].ev \in {"commit", "rollback"}
                    /\ trace[j - 1].who = trace[j].who
        /\ \A c \in Corpora :
              Cardinality({j \in 1..Len(trace) : trace[j].ev = "connect" /\ trace[j].who = c}) <= 1
        /\ pc = "query" => OpenAt(Len(trace)) = 0

\* C24 witness: the three sources were searched, each on its own connection,
\* and a reranker request was made in between.
C24_Witness ==
    /\ op = "search_all_sources"
    /\ returned
    /\ Cardinality({j \in 1..Len(trace) : trace[j].ev = "connect"}) = 3
    /\ Cardinality({j \in 1..Len(trace) : trace[j].ev = "close"}) = 3
    /\ \E j \in RerankPosts : \E i \in (j + 1)..Len(trace) : trace[i].ev = "connect"


\* ------------------------------------------------------- one tier per call
\* The rows returned, by their id.
ReturnedIds == {results[p].id : p \in 1..Len(results)}

\* C25: all results of one search_by_card_name call carry the same
\* match_type; when the prefix tier is not accepted the rows it fetched are
\* dropped, and a name starting with the query is among the fuzzy results
\* only if its own similarity is above similarity_threshold.
C25_SingleTierResults ==
    (NameDone /\ returned) =>
        /\ \A p, q \in 1..Len(results) : results[p].match_type = results[q].match_type
        /\ TiersQueried = <<"exact", "prefix", "fuzzy">> =>
              /\ \A r \in PrefixRows :
                    r.id \in ReturnedIds => r.sim > similarity_threshold
              /\ \A i \in 1..Len(candidates) :
                    candidates[i].sim <= similarity_threshold
                        => candidates[i].id \notin ReturnedIds
              /\ \A p \in 1..Len(results) : results[p].match_type = "fuzzy_trigram"

\* C25 witness: names starting with the query exist and the prefix query
\* fetched one, yet the call returned an empty list.
C25_Witness ==
    /\ NameDone
    /\ returned
    /\ TiersQueried = <<"exact", "prefix", "fuzzy">>
    /\ PrefixRows # {}
    /\ candidates # <<>>
    /\ top_k = SomeInt(2)
    /\ similarity_threshold = DefaultSimilarityThreshold
    /\ results = <<>>


\* ------------------------------------------------------ first 200 is final
\* The embedding requests answered with status 200.
EmbedOkPosts == {j \in PostsOf("embed") : trace[j].out = "ok"}

\* C26: generate_embedding stops at the first request answered with 200:
\* such a request is the last event of the call, which has then returned
\* without raising what the reply holds under 'embedding', None when the
\* field is absent; every earlier request failed and no request follows.
C26_First200IsFinal ==
    op = "generate_embedding" =>
        /\ Cardinality(EmbedOkPosts) <= 1
        /\ \A j \in EmbedOkPosts :
              /\ j = Len(trace)
              /\ pc = "done"
              /\ returned
              /\ ~raised
              /\ embedding \in EmbeddingReplies
              /\ \A i \in PostsOf("embed") \ {j} : trace[i].out \in {"exception", "status"}
        /\ (pc = "done" /\ EmbedOkPosts = {}) => embedding = NoneSeq
        /\ (pc = "done" /\ Truthy(embedding)) => EmbedOkPosts # {}

\* C26 witness: the first request was answered with 200 and no 'embedding';
\* generate_embedding returned None after that single request.
C26_Witness ==
    /\ op = "generate_embedding"
    /\ returned
    /\ Len(trace) = 1
    /\ trace[1].out = "ok"
    /\ trace[1].attempt = 0
    /\ embedding = NoneSeq


\* ------------------------------------------------------------ rerank items
\* The indices of the list rerank cuts to top_k: the ranking, or 0..N-1 in
\* the fallback.
FullOrder == IF Truthy(ranking) THEN ranking.val ELSE [i \in 1..N |-> i - 1]

\* C27: every item rerank returns has an index of 0..N-1 and the text of the
\* document at that index; with top_k >= 0 there are exactly min(top_k, N)
\* items, with top_k None there are N, and the items are the first ones of
\* the full list in its order.
C27_ItemsIndexTextPrefix ==
    RerankDone =>
        /\ \A p \in 1..Len(reranked) :
              /\ reranked[p].index \in 0..(N - 1)
              /\ reranked[p].text = documents[reranked[p].index + 1]
        /\ top_k.some => Len(reranked) = Min(top_k.val, N)
        /\ ~top_k.some => Len(reranked) = N
        /\ Len(FullOrder) = N
        /\ \A p \in 1..Len(reranked) : reranked[p].index = FullOrder[p]

\* C27 witness: a ranking of 3 documents that starts with the third and the
\* first, cut to top_k = 2.
C27_Witness ==
    /\ RerankDone
    /\ N = 3
    /\ ranking.some
    /\ top_k = SomeInt(2)
    /\ Len(reranked) = 2
    /\ reranked[1].index = 2
    /\ reranked[2].index = 0
    /\ reranked[1].text = documents[3]


\* --------------------------------------------------------- wait_for_ollama
\* The connection tests made so far, by their position in the trace.
Tests == {j \in 1..Len(trace) : trace[j].ev = "test"}

\* wait_for_ollama makes at most max_attempts connection tests, returns True
\* at the first test that succeeds and False after max_attempts tests that
\* did not.
WaitResult ==
    op = "wait_for_ollama" =>
        /\ Cardinality(Tests) <= max_attempts
        /\ \A j \in Tests : trace[j].out = "true" =>
              (j = Len(trace) /\ returned /\ ready)
        /\ (returned /\ ready) => trace[Len(trace)].out = "true"
        /\ (returned /\ ~ready) =>
              /\ Cardinality(Tests) = max_attempts
              /\ \A j \in Tests : trace[j].out = "false"
        /\ (\A j \in Tests : trace[j].out = "false") /\ Cardinality(Tests) = max_attempts
              => (returned /\ ~ready)
        /\ ~raised

\* C28 (as claimed): wait_for_ollama makes at most max_attempts connection
\* tests, returns True at the first successful one and False after
\* max_attempts unsuccessful ones, and waits delay seconds between
\* consecutive unsuccessful attempts.
C28_WaitsDelayBetweenTests ==
    /\ WaitResult
    /\ op = "wait_for_ollama" =>
          \A j \in Tests :
              (trace[j].out = "false" /\ \E l \in Tests : l > j /\ trace[l].out = "false") =>
                  /\ trace[j + 1].ev = "sleep"
                  /\ trace[j + 1].secs = delay


\* The embedding rows of kind `kind` that table content d holds for row id.
EmbeddingsOf(d, id, kind) ==
    {p \in 1..Len(d.embs) : d.embs[p].id = id /\ d.embs[p].kind = kind}

EmbeddingKinds == {"structured", "nl"}

\* Every primary row of d has at most one embedding row of each kind.
AtMostOneEmbeddingEach(d) ==
    \A p \in 1..Len(d.rows) : \A kind \in EmbeddingKinds :
        Cardinality(EmbeddingsOf(d, d.rows[p].id, kind)) <= 1

\* The ids of the rows the open transaction added to the committed ones.
NewRowIds ==
    {pending.rows[p].id : p \in (Len(stored.rows) + 1)..Len(pending.rows)}

\* The embedding rows the open transaction added to the committed ones.
NewEmbeddings ==
    {pending.embs[p] : p \in (Len(stored.embs) + 1)..Len(pending.embs)}

\* The cards of the running batch that were skipped as duplicates or whose
\* INSERT failed.
NotInserted == {p \in 1..Len(ids) : ~ids[p].some}

Cleared ==
    \E j \in 1..Len(trace) : trace[j].ev = "commit" /\ trace[j].out = "ok"

\* The committed primary rows are those of the first n records of the file,
\* all inserted by the running call, and every committed embedding row
\* belongs to one of them.
FirstRecordsStored(n) ==
    /\ Len(stored.rows) = n
    /\ \A p \in 1..n : stored.rows[p].item = p /\ stored.rows[p].run_no = run_no
    /\ \A e \in 1..Len(stored.embs) :
          \E p \in 1..n : stored.rows[p].id = stored.embs[e].id

\* An exception left ingest_rules or ingest_glossary while a batch was being
\* processed.
FailedInBatch ==
    op \in ClearingOps /\ pc = "done" /\ raised /\ Cleared /\ batch_i < Len(records)

\* C30: in ingest_rules and ingest_glossary, once the DELETEs are committed
\* the committed rows are exactly those of the batches that were committed
\* whole (records 1..i of the running call, none of an earlier run); when an
\* exception occurs in batch k, batches 1..k-1 stay committed, the rows and
\* embeddings of batch k are rolled back, and the rows that existed before the
\* call stay deleted.
C30_BatchesCommitAsUnits ==
    (op \in ClearingOps /\ Cleared) =>
        /\ FirstRecordsStored(Min(batch_i, Len(records)))
        /\ FailedInBatch => pending = stored

\* C30 witness: the second run failed in its second batch; the first batch
\* of that run is committed with an embedding and nothing else is.
C30_Witness ==
    /\ FailedInBatch
    /\ run_no = 2
    /\ batch_i >= 1
    /\ Len(stored.rows) = batch_i
    /\ Len(stored.embs) >= 1
    /\ stored.rows[1].id > 1

====
